---- MODULE Spec2Model ----
(***************************************************************************)
(* Token ledger (services/tokenService.js, models/tokenBlacklist.js,       *)
(* models/user.js, controllers/authController.js) and real-time fan-out    *)
(* (services/sseService.js, services/realtimeService.js) of the device     *)
(* management backend.                                                     *)
(*                                                                         *)
(* Node runs one handler at a time; a handler yields only at an `await`.   *)
(* Every action below is one such segment: the store operation awaited     *)
(* and the synchronous code that follows it up to the next await.          *)
(* Time is counted in seconds (the granularity of a JWT's iat/exp).        *)
(***************************************************************************)
EXTENDS Integers, Sequences, FiniteSets, TLC

----------------------------------------------------------------------------
(* Bounds of the exploration *)

MaxOps == 2          \* requests started and clock advances in one behaviour

(* Program constants *)

AccessTTL == 900             \* expiresIn: '15m'
RefreshTTL == 604800         \* expiresIn: '7d', 7 * 24 * 60 * 60 * 1000 ms
MaxRefreshTokens == 5        \* this.refreshTokens.length >= 5
maxHistorySize == 100        \* this.maxHistorySize = 100
LockTime == 7200             \* lockUntil: Date.now() + 2 * 60 * 60 * 1000
RateLimit == 100             \* socket.rateLimitData.count >= 100
RateWindow == 60             \* resetTime: Date.now() + 60000
Hour == 3600                 \* cron.schedule('0 * * * *', ...)

Procs == {1, 2}
Users == {"u1", "u2"}

role(u) == IF u = "u1" THEN "user" ELSE "admin"

ReasonEnum == {"logout", "revoked", "security", "expired"}

----------------------------------------------------------------------------
(* JSON web tokens: jwt.sign / jwt.verify / jwt.decode *)

NoTok == [id |-> "none", role |-> "none", iat |-> 0, exp |-> 0, sig |-> "none"]

\* a token whose signature was not made with config.jwtSecret
Forged == [id |-> "u1", role |-> "admin", iat |-> 0, exp |-> AccessTTL, sig |-> "bad"]

Payload(u) == [id |-> u, role |-> role(u)]

Sign(payload, t, ttl) ==
  [id |-> payload.id, role |-> payload.role, iat |-> t, exp |-> t + ttl, sig |-> "good"]

generateAccessToken(payload, t) == Sign(payload, t, AccessTTL)

generateRefreshToken(payload, t) == Sign(payload, t, RefreshTTL)

JwtVerifyAnyRole(token, t) ==
  IF token.sig # "good" THEN [err |-> "Invalid token", id |-> "none", role |-> "none"]
  ELSE IF t >= token.exp THEN [err |-> "Token expired", id |-> "none", role |-> "none"]
  ELSE [err |-> "none", id |-> token.id, role |-> "user"]

\* jwt.verify(token, secret, {issuer, audience}): signature first, then expiry
JwtVerify(token, t) ==
  IF token.sig # "good" THEN [err |-> "Invalid token", id |-> "none", role |-> "none"]
  ELSE IF t >= token.exp THEN [err |-> "Token expired", id |-> "none", role |-> "none"]
  ELSE [err |-> "none", id |-> token.id, role |-> token.role]

----------------------------------------------------------------------------
(* models/tokenBlacklist.js *)

isBlacklistedNever(bl, token) == FALSE

\* the lookup made only once the signature has been verified
isBlacklistedSigned(bl, token) == token.sig = "good" /\ \E e \in bl : e.token = token

isBlacklisted(bl, token) == \E e \in bl : e.token = token

\* this.create(...) under the schema: the reason enum is validated before
\* the insert, the unique index on token rejects a duplicate (code 11000)
BlacklistCreate(bl, token, type, userId, expiresAt, reason) ==
  IF reason \notin ReasonEnum THEN [ok |-> FALSE, bl |-> bl]
  ELSE IF isBlacklisted(bl, token) THEN [ok |-> TRUE, bl |-> bl]
  ELSE [ok |-> TRUE,
        bl |-> bl \cup {[token |-> token, type |-> type, userId |-> userId,
                         reason |-> reason, expiresAt |-> expiresAt]}]

\* the entry expires at decoded.exp taken as milliseconds
blacklistTokenNoScale(bl, token, type, userId, reason) ==
  IF token.exp = 0 THEN [ok |-> FALSE, bl |-> bl]
  ELSE BlacklistCreate(bl, token, type, userId, token.exp \div 1000, reason)

\* TokenService.blacklistToken: jwt.decode, then TokenBlacklist.blacklistToken;
\* every error is caught and turned into `false`
blacklistToken(bl, token, type, userId, reason) ==
  IF token.exp = 0 THEN [ok |-> FALSE, bl |-> bl]
  ELSE BlacklistCreate(bl, token, type, userId, token.exp, reason)

cleanExpired(bl, t) == {e \in bl : ~(e.expiresAt < t)}

----------------------------------------------------------------------------
(* models/user.js: the refreshTokens array of a user document *)

NoDoc == [refreshTokens |-> <<>>, v |-> 0]

\* a lock that is never in force
isLockedNever(until, t) == FALSE

\* the virtual isLocked: !!(this.lockUntil && this.lockUntil > Date.now())
isLocked(until, t) == until # 0 /\ until > t

Rec(token, expiresAt, t) ==
  [token |-> token, expiresAt |-> expiresAt, createdAt |-> t, lastUsed |-> t]

\* Array.prototype.sort((a, b) => a.createdAt - b.createdAt): stable
RECURSIVE InsertByCreatedAt(_, _)
InsertByCreatedAt(r, s) ==
  IF s = <<>> THEN <<r>>
  ELSE IF Head(s).createdAt <= r.createdAt
       THEN <<Head(s)>> \o InsertByCreatedAt(r, Tail(s))
       ELSE <<r>> \o s

RECURSIVE SortByCreatedAt(_)
SortByCreatedAt(s) ==
  IF s = <<>> THEN <<>>
  ELSE InsertByCreatedAt(s[Len(s)], SortByCreatedAt(SubSeq(s, 1, Len(s) - 1)))

addRefreshTokenNoSort(arr, token, expiresAt, t) ==
  LET kept == IF Len(arr) >= MaxRefreshTokens THEN Tail(arr) ELSE arr
  IN Append(kept, Rec(token, expiresAt, t))

\* userSchema.methods.addRefreshToken, the array it holds before save()
addRefreshToken(arr, token, expiresAt, t) ==
  LET kept == IF Len(arr) >= MaxRefreshTokens
              THEN Tail(SortByCreatedAt(arr))
              ELSE arr
  IN Append(kept, Rec(token, expiresAt, t))

\* userSchema.methods.removeRefreshToken
removeRefreshToken(arr, token) == SelectSeq(arr, LAMBDA r : r.token # token)

\* a filter that keeps every record
cleanExpiredRecordsNone(arr, t) == arr

\* userSchema.methods.cleanExpiredTokens
cleanExpiredRecords(arr, t) == SelectSeq(arr, LAMBDA r : r.expiresAt > t)

----------------------------------------------------------------------------
(* mongoose save(): the update it sends for a modified refreshTokens path. *)
(* Assigning or sorting/shifting the array sends $set of the whole array   *)
(* with the document's __v in the filter and increments __v; push() alone  *)
(* sends $push and increments __v without the filter; a field of one       *)
(* element sends $set of that field with __v in the filter.                *)

\* $set of the whole array (no update is sent when the array is unchanged)
SaveSet(db, u, doc, arr) ==
  IF arr = doc.refreshTokens THEN [ok |-> TRUE, db |-> db, doc |-> doc]
  ELSE IF db[u].v # doc.v THEN [ok |-> FALSE, db |-> db, doc |-> doc]
  ELSE [ok |-> TRUE,
        db |-> [db EXCEPT ![u] = [refreshTokens |-> arr, v |-> doc.v + 1]],
        doc |-> [refreshTokens |-> arr, v |-> doc.v + 1]]

\* $push of one element
SavePush(db, u, doc, rec) ==
  [ok |-> TRUE,
   db |-> [db EXCEPT ![u] = [refreshTokens |-> Append(db[u].refreshTokens, rec),
                             v |-> db[u].v + 1]],
   doc |-> [refreshTokens |-> Append(doc.refreshTokens, rec), v |-> doc.v + 1]]

\* save() after addRefreshToken: $set when the array was sorted and shifted
SaveAdded(db, u, doc, arr) ==
  IF Len(doc.refreshTokens) >= MaxRefreshTokens
  THEN SaveSet(db, u, doc, arr)
  ELSE SavePush(db, u, doc, arr[Len(arr)])

\* refreshToken.lastUsed = new Date() on the first element holding the token
FirstIndex(arr, token) ==
  CHOOSE i \in 1..Len(arr) :
    /\ arr[i].token = token
    /\ \A j \in 1..(i - 1) : arr[j].token # token

Touch(arr, token, t) ==
  [arr EXCEPT ![FirstIndex(arr, token)].lastUsed = t]

\* save() after the lastUsed update
SaveTouched(db, u, doc, token, t) ==
  IF db[u].v # doc.v THEN [ok |-> FALSE, db |-> db]
  ELSE [ok |-> TRUE,
        db |-> [db EXCEPT ![u].refreshTokens = Touch(@, token, t)]]

\* some unexpired record, whatever token it holds
hasValidRefreshTokenAny(arr, token, t) ==
  \E i \in 1..Len(arr) : arr[i].expiresAt > t

\* user.refreshTokens.some(rt => rt.token === token && rt.expiresAt > new Date())
hasValidRefreshToken(arr, token, t) ==
  \E i \in 1..Len(arr) : arr[i].token = token /\ arr[i].expiresAt > t

----------------------------------------------------------------------------
(* State *)

VARIABLES
  now,          \* Date.now() in seconds
  users,        \* the users collection: user id -> [refreshTokens, v]
  lockUntil,    \* the users' lockUntil: user id -> second the lock ends, 0 when unset
  blacklist,    \* the tokenblacklists collection
  issued,       \* tokens handed to the clients that send the requests
  rotatedAway,  \* history: refresh tokens a rotateTokens call has succeeded on
  pr,           \* the requests in flight, one per slot
  nops,         \* requests started and clock advances so far
  connections,  \* SSEService.connections: user id -> responses, in insertion order
  lastEventId,  \* SSEService.lastEventId
  eventHistory, \* SSEService.eventHistory
  sse,          \* the requests to GET /events and their responses
  nev,          \* history: events broadcast and heartbeats sent so far
  published,    \* history: the events broadcast so far, in order
  evicted,      \* history: ids shifted out of eventHistory
  unsent,       \* history: users a broadcastToUser call returned early for
  ws,           \* the socket.io sockets
  connectedUsers, \* RealtimeService.connectedUsers: user id -> socket ids
  socketUsers,  \* RealtimeService.socketUsers: socket id -> user info
  wsPublished   \* history: the device updates broadcast over socket.io, in order

ledgerVars == <<now, users, lockUntil, blacklist, issued, rotatedAway, pr, nops>>

sseVars ==
  <<connections, lastEventId, eventHistory, sse, nev, published, evicted, unsent>>

wsVars == <<ws, connectedUsers, socketUsers, wsPublished>>

vars == <<ledgerVars, sseVars, wsVars>>

Idle ==
  [pc |-> "idle", op |-> "none", user |-> "none", tok |-> NoTok, acc |-> NoTok,
   kind |-> "none", reason |-> "none", doc |-> NoDoc, todo |-> <<>>,
   newA |-> NoTok, newR |-> NoTok, decoded |-> [id |-> "none", role |-> "none"],
   res |-> "none", late |-> FALSE, count |-> 0, sawBl |-> FALSE,
   sawLive |-> FALSE, arr |-> <<>>, sdocs |-> <<>>, at |-> 0, success |-> FALSE]

\* what a client can put in a request: a token it was handed or a forged one;
\* clients send access tokens as bearer and refresh tokens as refresh tokens
ClientTokens == issued \cup {Forged}

AccessTokens == {t \in issued : t.exp - t.iat = AccessTTL}

RefreshTokens == {t \in issued : t.exp - t.iat = RefreshTTL}

KindOf(t) == IF t \in RefreshTokens THEN "refresh" ELSE "access"

\* u1's state after k logins, one per second, at seconds 1..k; the clients
\* that act hold the first and the last refresh token and the last access token
Preloaded(k) ==
  [i \in 1..k |-> Rec(generateRefreshToken(Payload("u1"), i), i + RefreshTTL, i)]

Preloads == {MaxRefreshTokens - 1, MaxRefreshTokens}

----------------------------------------------------------------------------
(* Requests *)

\* a slot takes its next request once the response of the last one is out
\* (the lowest free slot: the slots are interchangeable)
Start(p, r) ==
  /\ pr[p].pc \in {"idle", "done"}
  /\ \A q \in Procs : pr[q].pc \in {"idle", "done"} => ~(q < p)
  /\ nops < MaxOps
  /\ nops' = nops + 1
  /\ pr' = [pr EXCEPT ![p] = r]
  /\ UNCHANGED <<now, users, lockUntil, blacklist, issued, rotatedAway, sseVars, wsVars>>

\* tokenService.verifyToken(token, type) called on its own
StartVerify(p) ==
  \E t \in ClientTokens, k \in {"access", "refresh"} :
    Start(p, [Idle EXCEPT !.pc = "v_bl", !.op = "verify", !.tok = t, !.kind = k,
                          !.late = (t \in rotatedAway)])

\* POST /auth/login with the right password
StartLogin(p) ==
  \E u \in Users :
    Start(p, [Idle EXCEPT !.pc = "l_find", !.op = "login", !.user = u])

\* POST /auth/refresh
StartRotate(p) ==
  \E t \in RefreshTokens :
    Start(p, [Idle EXCEPT !.pc = "v_bl", !.op = "rotate", !.tok = t, !.kind = "refresh",
                          !.late = (t \in rotatedAway)])

\* POST /auth/logout behind the auth middleware
StartLogout(p) ==
  \E a \in AccessTokens, t \in RefreshTokens \cup {NoTok} :
    Start(p, [Idle EXCEPT !.pc = "v_bl", !.op = "logout", !.acc = a, !.tok = t,
                          !.kind = "access", !.reason = "logout"])

\* POST /auth/logout-all behind the auth middleware
StartLogoutAll(p) ==
  \E a \in AccessTokens :
    Start(p, [Idle EXCEPT !.pc = "v_bl", !.op = "logoutAll", !.acc = a,
                          !.kind = "access", !.reason = "logout_all"])

\* POST /auth/revoke behind the auth middleware
StartRevoke(p) ==
  \E a \in AccessTokens, t \in ClientTokens :
    Start(p, [Idle EXCEPT !.pc = "v_bl", !.op = "revoke", !.acc = a, !.tok = t,
                          !.kind = KindOf(t), !.reason = "revoked"])

\* tokenService.cleanExpiredTokens()
StartSweep(p) ==
  Start(p, [Idle EXCEPT !.pc = "sw_bl", !.op = "sweep"])

\* the token verifyToken is called with
VTok(r) == IF r.op \in {"logout", "logoutAll", "revoke"} THEN r.acc ELSE r.tok

\* the kind taken from the request for every call
VKindStored(r) == r.kind

VKind(r) == IF r.op \in {"logout", "logoutAll", "revoke"} THEN "access" ELSE r.kind

\* the response is out; the handler's locals are gone
Done(r, res) ==
  [Idle EXCEPT !.pc = "done", !.res = res, !.op = r.op, !.user = r.user, !.tok = r.tok,
               !.acc = r.acc, !.kind = r.kind, !.reason = r.reason, !.late = r.late,
               !.sawBl = r.sawBl, !.sawLive = r.sawLive, !.count = r.count, !.success = r.success,
               !.newA = r.newA, !.newR = r.newR]

----------------------------------------------------------------------------
(* tokenService.verifyToken, also the first step of the auth middleware *)

\* after the auth middleware has called next(): the handler's first await
HandlerPc(op) ==
  CASE op = "logout" -> "lo_acc"
    [] op = "logoutAll" -> "la_acc"
    [] op = "revoke" -> "rv_bl"

\* await TokenBlacklist.isBlacklisted(token), then jwt.verify; in the auth
\* middleware User.findById and the isLocked check follow
VerifyBlacklist(p) ==
  LET r == pr[p]
      t == VTok(r)
      d == JwtVerify(t, now)
      \* history: what the store and the clock were when the check ran
      r1 == [r EXCEPT !.sawBl = (\E e \in blacklist : e.token = t),
                      !.sawLive = (now < t.exp)]
  IN /\ r.pc = "v_bl"
     /\ pr' = [pr EXCEPT ![p] =
          IF isBlacklisted(blacklist, t) THEN Done(r1, "Token has been revoked")
          ELSE IF d.err # "none" THEN Done(r1, d.err)
          ELSE IF VKind(r) = "refresh"
               THEN [r1 EXCEPT !.pc = "v_find", !.decoded = [id |-> d.id, role |-> d.role]]
          ELSE IF r.op = "verify"
               THEN [Done(r1, "ok") EXCEPT !.decoded = [id |-> d.id, role |-> d.role]]
          ELSE IF isLocked(lockUntil[d.id], now)
               THEN Done([r1 EXCEPT !.user = d.id], "ACCOUNT_LOCKED")
          ELSE [r1 EXCEPT !.pc = HandlerPc(r.op), !.user = d.id,
                          !.decoded = [id |-> d.id, role |-> d.role]]]
     /\ UNCHANGED <<now, users, lockUntil, blacklist, issued, rotatedAway, nops, sseVars, wsVars>>

\* await User.findById(decoded.id), then the refreshTokens.some(...) check
VerifyFind(p) ==
  LET r == pr[p]
      doc == users[r.decoded.id]
  IN /\ r.pc = "v_find"
     /\ pr' = [pr EXCEPT ![p] =
          IF ~hasValidRefreshToken(doc.refreshTokens, r.tok, now)
          THEN Done(r, "Invalid refresh token")
          ELSE [r EXCEPT !.pc = "v_save", !.doc = doc, !.at = now]]
     /\ UNCHANGED <<now, users, lockUntil, blacklist, issued, rotatedAway, nops, sseVars, wsVars>>

\* await user.save() of the lastUsed update
VerifySave(p) ==
  LET r == pr[p]
      s == SaveTouched(users, r.decoded.id, r.doc, r.tok, r.at)
  IN /\ r.pc = "v_save"
     /\ users' = s.db
     /\ pr' = [pr EXCEPT ![p] =
          IF ~s.ok THEN Done(r, "VersionError")
          ELSE IF r.op = "verify" THEN Done(r, "ok")
          ELSE [r EXCEPT !.pc = "r_find"]]
     /\ UNCHANGED <<now, lockUntil, blacklist, issued, rotatedAway, nops, sseVars, wsVars>>

----------------------------------------------------------------------------
(* tokenService.rotateTokens after its verifyToken *)

\* await User.findById(decoded.id), the isLocked check, then the two jwt.sign calls
RotateFind(p) ==
  LET r == pr[p]
      u == r.decoded.id
      a == generateAccessToken(Payload(u), now)
      n == generateRefreshToken(Payload(u), now)
  IN /\ r.pc = "r_find"
     /\ pr' = [pr EXCEPT ![p] =
          IF isLocked(lockUntil[u], now)
          THEN Done([r EXCEPT !.user = u], "Account is temporarily locked")
          ELSE [r EXCEPT !.pc = "r_bl", !.user = u, !.doc = users[u], !.newA = a, !.newR = n]]
     /\ UNCHANGED <<now, users, lockUntil, blacklist, issued, rotatedAway, nops, sseVars, wsVars>>

\* await this.blacklistToken(refreshToken, 'refresh', user._id, 'rotated', ...)
RotateBlacklist(p) ==
  LET r == pr[p]
      b == blacklistToken(blacklist, r.tok, "refresh", r.user, "rotated")
  IN /\ r.pc = "r_bl"
     /\ blacklist' = b.bl
     /\ pr' = [pr EXCEPT ![p] = [r EXCEPT !.pc = "r_rm", !.success = b.ok]]
     /\ UNCHANGED <<now, users, lockUntil, issued, rotatedAway, nops, sseVars, wsVars>>

\* await user.removeRefreshToken(refreshToken), then addRefreshToken up to its save()
RotateRemove(p) ==
  LET r == pr[p]
      s == SaveSet(users, r.user, r.doc, removeRefreshToken(r.doc.refreshTokens, r.tok))
  IN /\ r.pc = "r_rm"
     /\ users' = s.db
     /\ pr' = [pr EXCEPT ![p] =
          IF ~s.ok THEN Done(r, "VersionError")
          ELSE [r EXCEPT !.pc = "r_add", !.doc = s.doc,
                  !.arr = addRefreshToken(s.doc.refreshTokens, r.newR, now + RefreshTTL, now)]]
     /\ UNCHANGED <<now, lockUntil, blacklist, issued, rotatedAway, nops, sseVars, wsVars>>

\* await user.addRefreshToken(newRefreshToken, ...), then the return
RotateAdd(p) ==
  LET r == pr[p]
      s == SaveAdded(users, r.user, r.doc, r.arr)
  IN /\ r.pc = "r_add"
     /\ users' = s.db
     /\ pr' = [pr EXCEPT ![p] = IF s.ok THEN Done(r, "ok") ELSE Done(r, "VersionError")]
     /\ issued' = IF s.ok THEN issued \cup {r.newA, r.newR} ELSE issued
     /\ rotatedAway' = IF s.ok THEN rotatedAway \cup {r.tok} ELSE rotatedAway
     /\ UNCHANGED <<now, lockUntil, blacklist, nops, sseVars, wsVars>>

----------------------------------------------------------------------------
(* authController.login *)

\* await User.findOne({ email }), then the isLocked check
LoginFind(p) ==
  LET r == pr[p]
  IN /\ r.pc = "l_find"
     /\ pr' = [pr EXCEPT ![p] =
          IF isLocked(lockUntil[r.user], now) THEN Done(r, "ACCOUNT_LOCKED")
          ELSE [r EXCEPT !.pc = "l_gen", !.doc = users[r.user]]]
     /\ UNCHANGED <<now, users, lockUntil, blacklist, issued, rotatedAway, nops, sseVars, wsVars>>

\* after bcrypt.compare and resetLoginAttempts: sign, addRefreshToken up to its save()
LoginGenerate(p) ==
  LET r == pr[p]
      a == generateAccessToken(Payload(r.user), now)
      n == generateRefreshToken(Payload(r.user), now)
  IN /\ r.pc = "l_gen"
     /\ pr' = [pr EXCEPT ![p] =
          [r EXCEPT !.pc = "l_save", !.newA = a, !.newR = n,
                    !.arr = addRefreshToken(r.doc.refreshTokens, n, now + RefreshTTL, now)]]
     /\ lockUntil' = [lockUntil EXCEPT ![r.user] = 0]
     /\ UNCHANGED <<now, users, blacklist, issued, rotatedAway, nops, sseVars, wsVars>>

\* await user.addRefreshToken(...), then the response
LoginSave(p) ==
  LET r == pr[p]
      s == SaveAdded(users, r.user, r.doc, r.arr)
  IN /\ r.pc = "l_save"
     /\ users' = s.db
     /\ pr' = [pr EXCEPT ![p] = IF s.ok THEN Done(r, "ok") ELSE Done(r, "LOGIN_ERROR")]
     /\ issued' = IF s.ok THEN issued \cup {r.newA, r.newR} ELSE issued
     /\ UNCHANGED <<now, lockUntil, blacklist, rotatedAway, nops, sseVars, wsVars>>

----------------------------------------------------------------------------
(* authController.logout *)

\* await tokenService.blacklistToken(accessToken, 'access', req.user.id, 'logout', ...)
LogoutAccess(p) ==
  LET r == pr[p]
      b == blacklistToken(blacklist, r.acc, "access", r.user, "logout")
  IN /\ r.pc = "lo_acc"
     /\ blacklist' = b.bl
     /\ pr' = [pr EXCEPT ![p] = IF r.tok = NoTok THEN Done(r, "ok") ELSE [r EXCEPT !.pc = "lo_ref"]]
     /\ UNCHANGED <<now, users, lockUntil, issued, rotatedAway, nops, sseVars, wsVars>>

\* await tokenService.blacklistToken(refreshToken, 'refresh', req.user.id, 'logout', ...)
LogoutRefresh(p) ==
  LET r == pr[p]
      b == blacklistToken(blacklist, r.tok, "refresh", r.user, "logout")
  IN /\ r.pc = "lo_ref"
     /\ blacklist' = b.bl
     /\ pr' = [pr EXCEPT ![p] = [r EXCEPT !.pc = "lo_find"]]
     /\ UNCHANGED <<now, users, lockUntil, issued, rotatedAway, nops, sseVars, wsVars>>

\* await User.findById(req.user.id)
LogoutFind(p) ==
  LET r == pr[p]
  IN /\ r.pc = "lo_find"
     /\ pr' = [pr EXCEPT ![p] = [r EXCEPT !.pc = "lo_rm", !.doc = users[r.user]]]
     /\ UNCHANGED <<now, users, lockUntil, blacklist, issued, rotatedAway, nops, sseVars, wsVars>>

\* await user.removeRefreshToken(refreshToken)
LogoutRemove(p) ==
  LET r == pr[p]
      s == SaveSet(users, r.user, r.doc, removeRefreshToken(r.doc.refreshTokens, r.tok))
  IN /\ r.pc = "lo_rm"
     /\ users' = s.db
     /\ pr' = [pr EXCEPT ![p] = IF s.ok THEN Done(r, "ok") ELSE Done(r, "LOGOUT_ERROR")]
     /\ UNCHANGED <<now, lockUntil, blacklist, issued, rotatedAway, nops, sseVars, wsVars>>

----------------------------------------------------------------------------
(* authController.logoutAll and tokenService.revokeAllUserTokens *)

\* await tokenService.blacklistToken(accessToken, 'access', req.user.id, 'logout_all', ...)
LogoutAllAccess(p) ==
  LET r == pr[p]
      b == blacklistToken(blacklist, r.acc, "access", r.user, "logout_all")
  IN /\ r.pc = "la_acc"
     /\ blacklist' = b.bl
     /\ pr' = [pr EXCEPT ![p] = [r EXCEPT !.pc = "ra_find"]]
     /\ UNCHANGED <<now, users, lockUntil, issued, rotatedAway, nops, sseVars, wsVars>>

\* tokenService.revokeAllUserTokens(userId) called on its own, reason = 'security'
StartRevokeAll(p) ==
  \E u \in Users :
    Start(p, [Idle EXCEPT !.pc = "ra_find", !.op = "revokeAll", !.user = u,
                          !.reason = "security"])

\* await User.findById(userId)
RevokeAllFind(p) ==
  LET r == pr[p]
      doc == users[r.user]
  IN /\ r.pc = "ra_find"
     /\ pr' = [pr EXCEPT ![p] =
          [r EXCEPT !.pc = IF doc.refreshTokens = <<>> THEN "ra_save" ELSE "ra_loop",
                    !.doc = doc, !.todo = doc.refreshTokens, !.count = 0]]
     /\ UNCHANGED <<now, users, lockUntil, blacklist, issued, rotatedAway, nops, sseVars, wsVars>>

\* one turn of the loop: await this.blacklistToken(refreshToken.token, 'refresh', userId, reason)
RevokeAllBlacklist(p) ==
  LET r == pr[p]
      b == blacklistToken(blacklist, Head(r.todo).token, "refresh", r.user, r.reason)
  IN /\ r.pc = "ra_loop"
     /\ blacklist' = b.bl
     /\ pr' = [pr EXCEPT ![p] =
          [r EXCEPT !.pc = IF Tail(r.todo) = <<>> THEN "ra_save" ELSE "ra_loop",
                    !.todo = Tail(r.todo), !.count = r.count + 1]]
     /\ UNCHANGED <<now, users, lockUntil, issued, rotatedAway, nops, sseVars, wsVars>>

\* user.refreshTokens = []; await user.save()
RevokeAllSave(p) ==
  LET r == pr[p]
      s == SaveSet(users, r.user, r.doc, <<>>)
  IN /\ r.pc = "ra_save"
     /\ users' = s.db
     /\ pr' = [pr EXCEPT ![p] = IF s.ok THEN Done(r, "ok") ELSE Done(r, "VersionError")]
     /\ UNCHANGED <<now, lockUntil, blacklist, issued, rotatedAway, nops, sseVars, wsVars>>

----------------------------------------------------------------------------
(* authController.revokeToken *)

\* await tokenService.blacklistToken(token, type, req.user.id, 'revoked', ...)
RevokeBlacklist(p) ==
  LET r == pr[p]
      b == blacklistToken(blacklist, r.tok, r.kind, r.user, "revoked")
  IN /\ r.pc = "rv_bl"
     /\ blacklist' = b.bl
     /\ pr' = [pr EXCEPT ![p] =
          IF r.kind = "refresh" THEN [r EXCEPT !.pc = "rv_find", !.success = b.ok]
          ELSE [Done(r, IF b.ok THEN "ok" ELSE "REVOKE_ERROR") EXCEPT !.success = b.ok]]
     /\ UNCHANGED <<now, users, lockUntil, issued, rotatedAway, nops, sseVars, wsVars>>

\* await User.findById(req.user.id)
RevokeFind(p) ==
  LET r == pr[p]
  IN /\ r.pc = "rv_find"
     /\ pr' = [pr EXCEPT ![p] = [r EXCEPT !.pc = "rv_rm", !.doc = users[r.user]]]
     /\ UNCHANGED <<now, users, lockUntil, blacklist, issued, rotatedAway, nops, sseVars, wsVars>>

\* await user.removeRefreshToken(token)
RevokeRemove(p) ==
  LET r == pr[p]
      s == SaveSet(users, r.user, r.doc, removeRefreshToken(r.doc.refreshTokens, r.tok))
  IN /\ r.pc = "rv_rm"
     /\ users' = s.db
     /\ pr' = [pr EXCEPT ![p] =
          IF s.ok /\ r.success THEN Done(r, "ok") ELSE Done(r, "REVOKE_ERROR")]
     /\ UNCHANGED <<now, lockUntil, blacklist, issued, rotatedAway, nops, sseVars, wsVars>>

----------------------------------------------------------------------------
(* tokenService.cleanExpiredTokens *)

RECURSIVE WithTokens(_, _)
\* User.find({ 'refreshTokens.0': { $exists: true } })
WithTokens(db, us) ==
  IF us = {} THEN <<>>
  ELSE LET u == CHOOSE x \in us : TRUE
       IN (IF db[u].refreshTokens # <<>> THEN <<[user |-> u, doc |-> db[u]]>> ELSE <<>>)
          \o WithTokens(db, us \ {u})

\* await TokenBlacklist.cleanExpired()
SweepBlacklist(p) ==
  LET r == pr[p]
  IN /\ r.pc = "sw_bl"
     /\ blacklist' = cleanExpired(blacklist, now)
     /\ pr' = [pr EXCEPT ![p] =
          [r EXCEPT !.pc = "sw_find",
                    !.count = Cardinality(blacklist) - Cardinality(cleanExpired(blacklist, now))]]
     /\ UNCHANGED <<now, users, lockUntil, issued, rotatedAway, nops, sseVars, wsVars>>

\* await User.find(...), then the first user.cleanExpiredTokens() up to its save()
SweepFind(p) ==
  LET r == pr[p]
      ds == WithTokens(users, Users)
  IN /\ r.pc = "sw_find"
     /\ pr' = [pr EXCEPT ![p] =
          IF ds = <<>> THEN Done(r, "ok")
          ELSE [r EXCEPT !.pc = "sw_user", !.sdocs = ds,
                         !.arr = cleanExpiredRecords(ds[1].doc.refreshTokens, now)]]
     /\ UNCHANGED <<now, users, lockUntil, blacklist, issued, rotatedAway, nops, sseVars, wsVars>>

\* await user.cleanExpiredTokens(), then the next turn of the loop up to its save()
SweepUser(p) ==
  LET r == pr[p]
      h == Head(r.sdocs)
      s == SaveSet(users, h.user, h.doc, r.arr)
      rest == Tail(r.sdocs)
      n == r.count + Len(h.doc.refreshTokens) - Len(r.arr)
  IN /\ r.pc = "sw_user"
     /\ users' = s.db
     /\ pr' = [pr EXCEPT ![p] =
          IF ~s.ok THEN Done(r, "VersionError")
          ELSE IF rest = <<>> THEN [Done(r, "ok") EXCEPT !.count = n, !.sdocs = rest]
          ELSE [r EXCEPT !.count = n, !.sdocs = rest,
                         !.arr = cleanExpiredRecords(rest[1].doc.refreshTokens, now)]]
     /\ UNCHANGED <<now, lockUntil, blacklist, issued, rotatedAway, nops, sseVars, wsVars>>

----------------------------------------------------------------------------
(* Environment: MongoDB's TTL monitor and the clock *)

\* tokenBlacklistSchema.index({ expiresAt: 1 }, { expireAfterSeconds: 0 })
TTLMonitor ==
  /\ \E e \in blacklist : e.expiresAt <= now
  /\ blacklist' = {e \in blacklist : e.expiresAt > now}
  /\ UNCHANGED <<now, users, lockUntil, issued, rotatedAway, pr, nops, sseVars, wsVars>>

\* a second, an access token's lifetime, a refresh token's lifetime (to the
\* instant of expiry and past it) go by
AdvanceClock ==
  /\ nops < MaxOps
  /\ nops' = nops + 1
  /\ \E d \in {1, AccessTTL, RefreshTTL, RefreshTTL + 1} : now' = now + d
  /\ UNCHANGED <<users, lockUntil, blacklist, issued, rotatedAway, pr, sseVars, wsVars>>

----------------------------------------------------------------------------
(* The token ledger under concurrent requests *)

NextLedger ==
  \/ \E p \in Procs : StartVerify(p)
  \/ \E p \in Procs : StartLogin(p)
  \/ \E p \in Procs : StartRotate(p)
  \/ \E p \in Procs : StartLogout(p)
  \/ \E p \in Procs : StartLogoutAll(p)
  \/ \E p \in Procs : StartRevokeAll(p)
  \/ \E p \in Procs : StartRevoke(p)
  \/ \E p \in Procs : StartSweep(p)
  \/ \E p \in Procs : VerifyBlacklist(p)
  \/ \E p \in Procs : VerifyFind(p)
  \/ \E p \in Procs : VerifySave(p)
  \/ \E p \in Procs : RotateFind(p)
  \/ \E p \in Procs : RotateBlacklist(p)
  \/ \E p \in Procs : RotateRemove(p)
  \/ \E p \in Procs : RotateAdd(p)
  \/ \E p \in Procs : LoginFind(p)
  \/ \E p \in Procs : LoginGenerate(p)
  \/ \E p \in Procs : LoginSave(p)
  \/ \E p \in Procs : LogoutAccess(p)
  \/ \E p \in Procs : LogoutRefresh(p)
  \/ \E p \in Procs : LogoutFind(p)
  \/ \E p \in Procs : LogoutRemove(p)
  \/ \E p \in Procs : LogoutAllAccess(p)
  \/ \E p \in Procs : RevokeAllFind(p)
  \/ \E p \in Procs : RevokeAllBlacklist(p)
  \/ \E p \in Procs : RevokeAllSave(p)
  \/ \E p \in Procs : RevokeBlacklist(p)
  \/ \E p \in Procs : RevokeFind(p)
  \/ \E p \in Procs : RevokeRemove(p)
  \/ \E p \in Procs : SweepBlacklist(p)
  \/ \E p \in Procs : SweepFind(p)
  \/ \E p \in Procs : SweepUser(p)
  \/ TTLMonitor
  \/ AdvanceClock


----------------------------------------------------------------------------
(* services/sseService.js: the push stream *)

MaxEvents == 2        \* events broadcast and heartbeats sent in one behaviour

\* the clients that connect, each over one of the two transports
Conns == {"c1", "c2"}

Devices == {"d1"}

\* ++this.lastEventId
NextEventIdSame(last) == last

NextEventId(last) == last + 1

addToHistoryNoShift(h, id, event, data) ==
  Append(h, [id |-> id, event |-> event, data |-> data])

\* SSEService.addToHistory
addToHistory(h, id, event, data) ==
  LET h1 == Append(h, [id |-> id, event |-> event, data |-> data])
  IN IF Len(h1) > maxHistorySize THEN Tail(h1) ELSE h1

replayEventsFrom(h, last) == SelectSeq(h, LAMBDA e : e.id >= last)

\* SSEService.replayEvents: the events it sends, in the order it sends them
replayEvents(h, last) == SelectSeq(h, LAMBDA e : e.id > last)

Frame(id, event, data) == [id |-> id, event |-> event, data |-> data]

\* a request to GET /events and its response. token is the token it presented,
\* lastId its Last-Event-ID;
\* replayed and subAt are history: the events replayed to it, and how many
\* events had been published when it entered the map
NoConn ==
  [st |-> "none", user |-> "none", token |-> NoTok, lastId |-> 0, handlers |-> FALSE,
   gone |-> FALSE, ended |-> FALSE, timer |-> FALSE, written |-> <<>>,
   replayed |-> <<>>, subAt |-> -1]

\* SSEService.sendEvent with an id: what the response has been written after it
\* (the http layer discards a write to a response whose client has left)
sendEvent(c, event, data, id) ==
  IF c.ended \/ c.gone THEN c
  ELSE [c EXCEPT !.written = Append(@, Frame(id, event, data))]

\* eventsToReplay.forEach(event => this.sendEvent(res, event.event, event.data, event.id))
sendAll(c, es) ==
  IF c.ended \/ c.gone THEN c
  ELSE [c EXCEPT !.written =
          @ \o [i \in 1..Len(es) |-> Frame(es[i].id, es[i].event, es[i].data)]]

\* the client has left: nothing is kept of what it was sent
Left(c) ==
  [c EXCEPT !.gone = TRUE, !.written = <<>>, !.replayed = <<>>,
            !.lastId = IF c.st = "open" THEN 0 ELSE @,
            !.subAt = IF c.handlers THEN -1 ELSE @]

\* res.end(): nothing is kept of what the client was sent
Ended(c) ==
  [c EXCEPT !.ended = TRUE, !.written = <<>>, !.replayed = <<>>, !.lastId = 0,
            !.subAt = -1]

\* this.connections.has(userId)
Has(u) == u \in DOMAIN connections

Range(q) == {q[i] : i \in 1..Len(q)}

\* the responses of a user up to the first one that has ended or whose client
\* has left: the iteration stops there
ConnsOfUntilBad(u) ==
  IF ~Has(u) THEN <<>>
  ELSE LET q == connections[u]
           bad == {i \in 1..Len(q) : sse[q[i]].gone \/ sse[q[i]].ended}
       IN IF bad = {} THEN q
          ELSE SubSeq(q, 1, (CHOOSE i \in bad : \A j \in bad : i <= j) - 1)

\* the responses of a user, in the order the Set iterates them
ConnsOf(u) == IF Has(u) THEN connections[u] ELSE <<>>

handleDisconnectionUser(m, u, c) ==
  IF u \notin DOMAIN m THEN m ELSE [x \in DOMAIN m \ {u} |-> m[x]]

\* the response is deleted, the user's entry is kept even when empty
handleDisconnectionKeep(m, u, c) ==
  IF u \notin DOMAIN m THEN m ELSE [m EXCEPT ![u] = SelectSeq(@, LAMBDA x : x # c)]

\* SSEService.handleDisconnection: the map after it
handleDisconnection(m, u, c) ==
  IF u \notin DOMAIN m THEN m
  ELSE LET rest == SelectSeq(m[u], LAMBDA x : x # c)
       IN IF rest = <<>> THEN [x \in DOMAIN m \ {u} |-> m[x]]
          ELSE [m EXCEPT ![u] = rest]

\* this.connections.get(userId).add(res), the Set created when absent
Track(m, u, c) ==
  [x \in DOMAIN m \cup {u} |->
     IF x # u THEN m[x]
     ELSE IF u \notin DOMAIN m THEN <<c>>
     ELSE IF c \in Range(m[u]) THEN m[u] ELSE Append(m[u], c)]

\* this.connections.delete(userId)
Untrack(m, u) == [x \in DOMAIN m \ {u} |-> m[x]]

\* broadcastToAll calls that fill the history before the first connection
PreHistory(k) == [i \in 1..k |-> [id |-> i, event |-> "announcement", data |-> "all"]]

HistoryPreloads == {0, maxHistorySize}

\* tokens presented at a handshake, at second AccessTTL + 1
SseNow == AccessTTL + 1

ExpiredTok == generateAccessToken(Payload("u1"), 1)

RevokedTok == generateAccessToken(Payload("u1"), 2)

GoodTok(u) == generateAccessToken(Payload(u), 3)

HandshakeTokens == {GoodTok(u) : u \in Users} \cup {ExpiredTok, RevokedTok, Forged, NoTok}

\* events can still be published or given an id within the bound
Budget(n) == nev + n <= MaxEvents

\* values of the Last-Event-ID header
LastIds == {0, 1}

\* GET /events arrives: handleConnection up to `await tokenService.verifyToken`
\* (the clients are interchangeable: c1 is the first to arrive)
SseRequest(c) ==
  \E t \in HandshakeTokens, l \in LastIds :
    /\ sse[c].st = "none" /\ ws[c].st = "none"
    /\ c = "c2" => sse["c1"].st # "none" \/ ws["c1"].st # "none"
    /\ sse' = [sse EXCEPT ![c] =
         IF t = NoTok THEN [@ EXCEPT !.st = "rejected", !.ended = TRUE]
         ELSE [@ EXCEPT !.st = "verifying", !.token = t, !.lastId = l]]
    /\ UNCHANGED <<connections, lastEventId, eventHistory, nev, published, evicted, unsent,
                   ledgerVars, wsVars>>

\* handleConnection after the await: 401, or headers, 'connected', tracking,
\* close handlers, replay and the heartbeat timer
SseVerified(c) ==
  LET r == sse[c]
      d == JwtVerify(r.token, now)
      ok == ~isBlacklisted(blacklist, r.token) /\ d.err = "none"
      id == NextEventId(lastEventId)
      es == IF r.lastId > 0 THEN replayEvents(eventHistory, r.lastId) ELSE <<>>
      c1 == sendEvent(r, "connected", d.id, id)
      c2 == sendAll(c1, es)
  IN /\ r.st = "verifying"
     /\ sse' = [sse EXCEPT ![c] =
          IF ~ok THEN [r EXCEPT !.st = "rejected", !.token = NoTok, !.lastId = 0,
                                !.ended = TRUE]
          ELSE [c2 EXCEPT !.st = "open", !.user = d.id,
                          !.handlers = TRUE, !.timer = TRUE,
                          !.replayed = IF r.gone THEN <<>> ELSE es,
                          !.subAt = Len(published)]]
     /\ lastEventId' = IF ok THEN id ELSE lastEventId
     /\ connections' = IF ok THEN Track(connections, d.id, c) ELSE connections
     /\ UNCHANGED <<eventHistory, nev, published, evicted, unsent, ledgerVars, wsVars>>

\* the client closes the transport: req emits 'aborted' and 'close', and each
\* handler attached by then runs handleDisconnection
SseClientClose(c) ==
  LET r == sse[c]
      m1 == handleDisconnection(connections, r.user, c)
  IN /\ r.st \in {"verifying", "open"}
     /\ ~r.gone
     /\ sse' = [sse EXCEPT ![c] = Left(r)]
     /\ connections' = IF r.handlers THEN handleDisconnection(m1, r.user, c)
                       ELSE connections
     /\ UNCHANGED <<lastEventId, eventHistory, nev, published, evicted, unsent,
                    ledgerVars, wsVars>>

\* the setInterval callback of a connection
SseHeartbeat(c) ==
  LET r == sse[c]
      id == NextEventId(lastEventId)
  IN /\ r.timer
     /\ ~r.ended => Budget(1)
     /\ sse' = [sse EXCEPT ![c] =
          IF r.ended THEN [r EXCEPT !.timer = FALSE]
          ELSE sendEvent(r, "heartbeat", "ping", id)]
     /\ lastEventId' = IF r.ended THEN lastEventId ELSE id
     /\ nev' = IF r.ended THEN nev ELSE nev + 1
     /\ UNCHANGED <<connections, eventHistory, published, evicted, unsent,
                    ledgerVars, wsVars>>

\* ids that left the history in a step
Dropped(h, h1) == {h[i].id : i \in 1..Len(h)} \ {h1[i].id : i \in 1..Len(h1)}

\* SSEService.broadcastToUser, as sendDeviceUpdate calls it; it returns at
\* once for a user who has no response in the map
BroadcastToUser(u) ==
  LET id == NextEventId(lastEventId)
      h1 == addToHistory(eventHistory, id, "device-update", u)
      to == Range(ConnsOf(u))
  IN /\ Budget(1)
     /\ nev' = nev + 1
     /\ IF ~Has(u)
        THEN /\ unsent' = unsent \cup {u}
             /\ UNCHANGED <<lastEventId, eventHistory, sse, published, evicted>>
        ELSE /\ lastEventId' = id
             /\ eventHistory' = h1
             /\ sse' = [c \in Conns |->
                  IF c \in to THEN sendEvent(sse[c], "device-update", u, id) ELSE sse[c]]
             /\ published' = Append(published, Frame(id, "device-update", u))
             /\ evicted' = evicted \cup Dropped(eventHistory, h1)
             /\ UNCHANGED unsent
     /\ UNCHANGED <<connections, ledgerVars, wsVars>>

\* SSEService.broadcastToAll
BroadcastToAll ==
  LET id == NextEventId(lastEventId)
      h1 == addToHistory(eventHistory, id, "announcement", "all")
      to == UNION {Range(connections[u]) : u \in DOMAIN connections}
  IN /\ Budget(1)
     /\ lastEventId' = id
     /\ eventHistory' = h1
     /\ sse' = [c \in Conns |->
          IF c \in to THEN sendEvent(sse[c], "announcement", "all", id) ELSE sse[c]]
     /\ published' = Append(published, Frame(id, "announcement", "all"))
     /\ evicted' = evicted \cup Dropped(eventHistory, h1)
     /\ nev' = nev + 1
     /\ UNCHANGED <<connections, unsent, ledgerVars, wsVars>>

\* position of a response in a user's Set
IndexOf(q, c) == CHOOSE i \in 1..Len(q) : q[i] = c

\* SSEService.closeUserConnections
CloseUserConnections(u) ==
  LET q == ConnsOf(u)
  IN /\ Has(u)
     /\ sse' = [c \in Conns |->
          IF c \in Range(q)
          THEN Ended(sendEvent(sse[c], "force-disconnect", "User logged out",
                               lastEventId + IndexOf(q, c)))
          ELSE sse[c]]
     /\ lastEventId' = lastEventId + Len(q)
     /\ connections' = Untrack(connections, u)
     /\ UNCHANGED <<eventHistory, nev, published, evicted, unsent, ledgerVars, wsVars>>

----------------------------------------------------------------------------
(* services/realtimeService.js: socket.io. A socket belongs to rooms; an    *)
(* emit to a room reaches each socket that is in it at that moment; a       *)
(* socket that closes leaves its rooms before its 'disconnect' handler runs *)

UserRoom(u) == <<"user", u>>

RoleRoom(r) == <<"role", r>>

DeviceRoom(d) == <<"device", d>>

\* a socket.io socket. token is the token of its handshake, rx what has been
\* emitted to it; joined is history:
\* how many updates had been broadcast when the socket joined each room
\* socket.rateLimitData before the rate limiting middleware has set it
NoRate == [set |-> FALSE, count |-> 0, resetTime |-> 0]

NoSocket ==
  [st |-> "none", token |-> NoTok, userId |-> "none", userRole |-> "none",
   gone |-> FALSE, rooms |-> {}, rx |-> <<>>, joined |-> << >>, rate |-> NoRate]

\* the rate limiting middleware registered with io.use: socket.io runs it
\* once for a socket, while the socket connects
rateLimit(s, t) ==
  LET r0 == IF s.rate.set THEN s.rate
            ELSE [set |-> TRUE, count |-> 0, resetTime |-> t + RateWindow]
      r1 == IF t > r0.resetTime THEN [r0 EXCEPT !.count = 0, !.resetTime = t + RateWindow]
            ELSE r0
  IN IF r1.count >= RateLimit THEN [ok |-> FALSE, s |-> [s EXCEPT !.rate = r1]]
     ELSE [ok |-> TRUE, s |-> [s EXCEPT !.rate = [r1 EXCEPT !.count = @ + 1]]]

\* socket.emit(event, data)
emit(s, event, data) == [s EXCEPT !.rx = Append(@, [event |-> event, data |-> data])]

\* a join that does not take effect
joinNone(s, room, n) == s

\* socket.join(room)
join(s, room, n) ==
  IF room \in s.rooms THEN s
  ELSE [s EXCEPT !.rooms = @ \cup {room},
                 !.joined = [x \in DOMAIN @ \cup {room} |->
                               IF x = room THEN n ELSE @[x]]]

\* this.io.to(room).emit(event, data)
toRoom(w, room, event, data) ==
  [c \in Conns |-> IF room \in w[c].rooms THEN emit(w[c], event, data) ELSE w[c]]

wsHandleDisconnectionKeep(m, u, c) ==
  IF u \notin DOMAIN m THEN m ELSE [m EXCEPT ![u] = @ \ {c}]

\* the RealtimeService.handleDisconnection of a socket: connectedUsers after it
wsHandleDisconnection(m, u, c) ==
  IF u \notin DOMAIN m THEN m
  ELSE IF m[u] \ {c} = {} THEN [x \in DOMAIN m \ {u} |-> m[x]]
  ELSE [m EXCEPT ![u] = @ \ {c}]

\* the transport of a socket has closed: socket.io empties its rooms, then
\* emits 'disconnect'; nothing is kept of a socket that is closed
Closed(s) == [NoSocket EXCEPT !.st = "closed"]

\* a socket.io handshake arrives: the authentication middleware up to
\* `await tokenService.verifyToken`
WsHandshake(c) ==
  \E t \in HandshakeTokens :
    /\ sse[c].st = "none" /\ ws[c].st = "none"
    /\ c = "c2" => sse["c1"].st # "none" \/ ws["c1"].st # "none"
    /\ ws' = [ws EXCEPT ![c] =
         IF t = NoTok THEN [@ EXCEPT !.st = "rejected"]
         ELSE [@ EXCEPT !.st = "verifying", !.token = t]]
    /\ UNCHANGED <<connectedUsers, socketUsers, wsPublished, ledgerVars, sseVars>>

\* the middleware after the await, the rate limiting middleware, and on
\* next() the 'connection' event:
\* RealtimeService.handleConnection. socket.io drops a socket whose client
\* left while the middleware ran
WsAuthenticated(c) ==
  LET s == ws[c]
      d == JwtVerify(s.token, now)
      verified == ~isBlacklisted(blacklist, s.token) /\ d.err = "none"
      n == Len(wsPublished)
      rl == rateLimit(s, now)
      s1 == [rl.s EXCEPT !.st = "connected", !.userId = d.id, !.userRole = d.role]
      s2 == join(join(s1, UserRoom(d.id), n), RoleRoom(d.role), n)
      ok == verified /\ rl.ok
  IN /\ s.st = "verifying"
     /\ ws' = [ws EXCEPT ![c] =
          IF ~ok THEN [NoSocket EXCEPT !.st = "rejected"]
          ELSE IF s.gone THEN Closed(s)
          ELSE emit(s2, "connected", d.id)]
     /\ connectedUsers' =
          IF ok /\ ~s.gone
          THEN [x \in DOMAIN connectedUsers \cup {d.id} |->
                  IF x = d.id
                  THEN (IF x \in DOMAIN connectedUsers THEN connectedUsers[x] ELSE {})
                       \cup {c}
                  ELSE connectedUsers[x]]
          ELSE connectedUsers
     /\ socketUsers' =
          IF ok /\ ~s.gone
          THEN [x \in DOMAIN socketUsers \cup {c} |->
                  IF x = c THEN [userId |-> d.id, role |-> d.role] ELSE socketUsers[x]]
          ELSE socketUsers
     /\ UNCHANGED <<wsPublished, ledgerVars, sseVars>>

\* the transport closes, by the client or when a server-side close completes:
\* 'disconnect' runs RealtimeService.handleDisconnection
WsClose(c) ==
  LET s == ws[c]
  IN /\ \/ s.st = "connected"
        \/ s.st = "verifying" /\ ~s.gone
     /\ ws' = [ws EXCEPT ![c] =
          IF s.st = "verifying" THEN [s EXCEPT !.gone = TRUE]
          ELSE Closed(s)]
     /\ connectedUsers' =
          IF s.st = "connected" THEN wsHandleDisconnection(connectedUsers, s.userId, c)
          ELSE connectedUsers
     /\ socketUsers' =
          IF s.st = "connected" THEN [x \in DOMAIN socketUsers \ {c} |-> socketUsers[x]]
          ELSE socketUsers
     /\ UNCHANGED <<wsPublished, ledgerVars, sseVars>>

\* RealtimeService.handleDeviceStatusRequest with a deviceId
WsDeviceStatusRequest(c) ==
  \E d \in Devices :
    LET s == ws[c]
    IN /\ s.st = "connected"
       /\ DeviceRoom(d) \notin s.rooms
       /\ ws' = [ws EXCEPT ![c] =
            emit(join(s, DeviceRoom(d), Len(wsPublished)), "subscribed-device", d)]
       /\ UNCHANGED <<connectedUsers, socketUsers, wsPublished, ledgerVars, sseVars>>

\* RealtimeService.broadcastDeviceUpdate; the status is the number of the update
BroadcastDeviceUpdate(d, ownerId) ==
  LET n == Len(wsPublished) + 1
      data == [deviceId |-> d, status |-> n]
      w1 == toRoom(ws, DeviceRoom(d), "device-update", data)
  IN /\ Budget(1)
     /\ \E c \in Conns : ws[c].st = "connected"
     /\ ws' = toRoom(w1, UserRoom(ownerId), "device-update", data)
     /\ wsPublished' = Append(wsPublished, [deviceId |-> d, status |-> n, ownerId |-> ownerId])
     /\ nev' = nev + 1
     /\ UNCHANGED <<connectedUsers, socketUsers, ledgerVars,
                    connections, lastEventId, eventHistory, sse, published, evicted, unsent>>

\* socket.disconnect(true) closes the client: socket.io makes the socket leave
\* its rooms and emits its 'disconnect' within the call
Kicked(s) == [NoSocket EXCEPT !.st = "kicked"]

\* userSockets.forEach(...) of disconnectUser: connectedUsers after the
\* 'disconnect' handler of each socket has run
RECURSIVE disconnectEach(_, _, _)
disconnectEach(m, u, ids) ==
  IF ids = {} THEN m
  ELSE LET c == CHOOSE x \in ids : TRUE
       IN disconnectEach(wsHandleDisconnection(m, u, c), u, ids \ {c})

\* RealtimeService.disconnectUser
DisconnectUser(u) ==
  LET ids == connectedUsers[u]
  IN /\ u \in DOMAIN connectedUsers
     /\ ws' = [c \in Conns |->
          IF c \in ids
          THEN Kicked(emit(ws[c], "force-disconnect", "forced_disconnect"))
          ELSE ws[c]]
     /\ connectedUsers' = disconnectEach(connectedUsers, u, ids)
     /\ socketUsers' = [x \in DOMAIN socketUsers \ ids |-> socketUsers[x]]
     /\ UNCHANGED <<wsPublished, ledgerVars, sseVars>>

----------------------------------------------------------------------------
(* Client control messages: 'join-organization', 'leave-organization' and   *)
(* 'device-status-request'. A client chooses what it sends with the event:  *)
(* an object with the field, an object without it, or nothing at all.       *)

Orgs == {"o1"}

OrgRoom(o) == <<"org", o>>

\* socket.emit(event) without an argument: the handler's data is undefined
NoData == [type |-> "undefined", fields |-> << >>]

\* socket.emit(event, {})
EmptyObject == [type |-> "object", fields |-> << >>]

OrgPayloads ==
  {NoData, EmptyObject} \cup {[type |-> "object", fields |-> [organizationId |-> o]] : o \in Orgs}

DevicePayloads ==
  {NoData, EmptyObject} \cup {[type |-> "object", fields |-> [deviceId |-> d]] : d \in Devices}

\* const { organizationId } = data throws a TypeError when data is undefined
Throws(data) == data.type # "object"

\* socket.leave(room)
leave(s, room) ==
  [s EXCEPT !.rooms = @ \ {room},
            !.joined = [x \in DOMAIN @ \ {room} |-> @[x]]]

\* RealtimeService.handleJoinOrganization: the socket after it
handleJoinOrganization(s, data, n) ==
  IF Throws(data) THEN s
  ELSE IF "organizationId" \notin DOMAIN data.fields
  THEN emit(s, "error", "Organization ID required")
  ELSE emit(join(s, OrgRoom(data.fields.organizationId), n),
            "joined-organization", data.fields.organizationId)

\* RealtimeService.handleLeaveOrganization: the socket after it
handleLeaveOrganization(s, data, n) ==
  IF Throws(data) THEN s
  ELSE IF "organizationId" \notin DOMAIN data.fields
  THEN emit(s, "error", "Organization ID required")
  ELSE emit(leave(s, OrgRoom(data.fields.organizationId)),
            "left-organization", data.fields.organizationId)

\* RealtimeService.handleDeviceStatusRequest: the socket after it
handleDeviceStatusRequest(s, data, n) ==
  IF Throws(data) THEN s
  ELSE IF "deviceId" \notin DOMAIN data.fields
  THEN emit(s, "error", "Device ID required")
  ELSE emit(join(s, DeviceRoom(data.fields.deviceId), n),
            "subscribed-device", data.fields.deviceId)

\* process.on('uncaughtException'): process.exit(1). Every socket is gone
\* and so are the maps
Exited == [c \in Conns |-> [NoSocket EXCEPT !.st = "exited"]]

\* a listener attached by socket.on(event, ...) runs on a message of a
\* connected socket; socket.io calls it outside any try block, so what it
\* throws reaches the process
Control(c, data, after) ==
  /\ ws[c].st = "connected"
  /\ Budget(1)
  /\ nev' = nev + 1
  /\ ws' = IF Throws(data) THEN Exited ELSE [ws EXCEPT ![c] = after]
  /\ connectedUsers' = IF Throws(data) THEN << >> ELSE connectedUsers
  /\ socketUsers' = IF Throws(data) THEN << >> ELSE socketUsers
  /\ UNCHANGED <<wsPublished, ledgerVars,
                 connections, lastEventId, eventHistory, sse, published, evicted, unsent>>

JoinOrganization(c, data) ==
  Control(c, data, handleJoinOrganization(ws[c], data, Len(wsPublished)))

LeaveOrganization(c, data) ==
  Control(c, data, handleLeaveOrganization(ws[c], data, Len(wsPublished)))

DeviceStatusRequest(c, data) ==
  Control(c, data, handleDeviceStatusRequest(ws[c], data, Len(wsPublished)))

\* socket.on('join-organization', ...)
WsJoinOrganization(c) == \E data \in OrgPayloads : JoinOrganization(c, data)

\* socket.on('leave-organization', ...)
WsLeaveOrganization(c) == \E data \in OrgPayloads : LeaveOrganization(c, data)

\* socket.on('device-status-request', ...)
WsDeviceStatusMessage(c) == \E data \in DevicePayloads : DeviceStatusRequest(c, data)

----------------------------------------------------------------------------
(* The two transports with the token store at rest *)

InitRealtime ==
  \E k \in HistoryPreloads :
    /\ connections = << >>
    /\ lastEventId = k
    /\ eventHistory = PreHistory(k)
    /\ sse = [c \in Conns |-> NoConn]
    /\ nev = 0
    /\ published = PreHistory(k)
    /\ evicted = {}
    /\ unsent = {}
    /\ ws = [c \in Conns |-> NoSocket]
    /\ connectedUsers = << >>
    /\ socketUsers = << >>
    /\ wsPublished = <<>>
    /\ now = SseNow
    /\ users = [u \in Users |-> NoDoc]
    /\ blacklist = blacklistToken({}, RevokedTok, "access", "u1", "logout").bl
    /\ issued = HandshakeTokens \ {Forged, NoTok}
    /\ lockUntil = [u \in Users |-> 0]
    /\ rotatedAway = {}
    /\ pr = [p \in Procs |-> Idle]
    /\ nops = 0

NextRealtime ==
  \/ \E c \in Conns : SseRequest(c)
  \/ \E c \in Conns : SseVerified(c)
  \/ \E c \in Conns : SseClientClose(c)
  \/ \E c \in Conns : SseHeartbeat(c)
  \/ \E u \in Users : BroadcastToUser(u)
  \/ BroadcastToAll
  \/ \E u \in Users : CloseUserConnections(u)
  \/ \E c \in Conns : WsHandshake(c)
  \/ \E c \in Conns : WsAuthenticated(c)
  \/ \E c \in Conns : WsClose(c)
  \/ \E c \in Conns : WsDeviceStatusRequest(c)
  \/ \E d \in Devices, u \in Users : BroadcastDeviceUpdate(d, u)
  \/ \E u \in Users : DisconnectUser(u)

SpecRealtime == InitRealtime /\ [][NextRealtime]_vars

----------------------------------------------------------------------------
(* The sockets and the control messages their clients send *)

NextControl ==
  \/ \E c \in Conns : WsHandshake(c)
  \/ \E c \in Conns : WsAuthenticated(c)
  \/ \E c \in Conns : WsClose(c)
  \/ \E c \in Conns : WsJoinOrganization(c)
  \/ \E c \in Conns : WsLeaveOrganization(c)
  \/ \E c \in Conns : WsDeviceStatusMessage(c)
  \/ \E u \in Users : DisconnectUser(u)

SpecControl == InitRealtime /\ [][NextControl]_vars

----------------------------------------------------------------------------
(* One socket.io client that keeps sending 'device-status-request' with a   *)
(* deviceId, all within the minute that follows its handshake               *)

MaxMessages == 101    \* control messages the client sends in one behaviour

\* socket.on('device-status-request', ...) on a message that carries a deviceId
WsMessage(c) ==
  \E d \in Devices :
    LET data == [type |-> "object", fields |-> [deviceId |-> d]]
    IN /\ ws[c].st = "connected"
       /\ Len(ws[c].rx) <= MaxMessages
       /\ ws' = [ws EXCEPT ![c] = handleDeviceStatusRequest(ws[c], data, Len(wsPublished))]
       /\ UNCHANGED <<connectedUsers, socketUsers, wsPublished, ledgerVars, sseVars>>

NextRate ==
  \/ \E c \in {"c1"} : WsHandshake(c)
  \/ \E c \in {"c1"} : WsAuthenticated(c)
  \/ \E c \in {"c1"} : WsMessage(c)
  \/ \E c \in {"c1"} : WsClose(c)

SpecRate == InitRealtime /\ [][NextRate]_vars

----------------------------------------------------------------------------
(* Business logic publishing to connected clients: PUT /devices/:id by the   *)
(* device's owner, with clients connected over either transport              *)

\* deviceController.updateDevice once the device is stored: the one call it
\* makes to publish the change (req.user.id is the owner)
UpdateDevice(d, u) == BroadcastDeviceUpdate(d, u)

NextPublish ==
  \/ \E c \in Conns : SseRequest(c)
  \/ \E c \in Conns : SseVerified(c)
  \/ \E c \in Conns : SseClientClose(c)
  \/ \E c \in Conns : WsHandshake(c)
  \/ \E c \in Conns : WsAuthenticated(c)
  \/ \E c \in Conns : WsClose(c)
  \/ \E d \in Devices, u \in Users : UpdateDevice(d, u)

SpecPublish == InitRealtime /\ [][NextPublish]_vars

----------------------------------------------------------------------------
(* The push stream's clients coming and going. A handler that awaits is      *)
(* resumed, and the heartbeat timers keep firing.                            *)

NextStream ==
  \/ \E c \in Conns : SseRequest(c)
  \/ \E c \in Conns : SseVerified(c)
  \/ \E c \in Conns : SseClientClose(c)
  \/ \E c \in Conns : SseHeartbeat(c)

SpecStream ==
  /\ InitRealtime
  /\ [][NextStream]_vars
  /\ WF_vars(\E c \in Conns : SseVerified(c))
  /\ WF_vars(\E c \in Conns : SseHeartbeat(c))

----------------------------------------------------------------------------
(* Connected clients while tokens are revoked: the handshakes, the requests *)
(* that blacklist a token, and the broadcasts                               *)

\* no event has been broadcast yet; the clients hold the tokens of two logins
InitSession ==
  /\ connections = << >>
  /\ lastEventId = 0
  /\ eventHistory = <<>>
  /\ sse = [c \in Conns |-> NoConn]
  /\ nev = 0
  /\ published = <<>>
  /\ evicted = {}
  /\ unsent = {}
  /\ ws = [c \in Conns |-> NoSocket]
  /\ connectedUsers = << >>
  /\ socketUsers = << >>
  /\ wsPublished = <<>>
  /\ now = SseNow
  /\ users = [u \in Users |-> NoDoc]
  /\ blacklist = blacklistToken({}, RevokedTok, "access", "u1", "logout").bl
  /\ issued = {GoodTok(u) : u \in Users}
  /\ lockUntil = [u \in Users |-> 0]
  /\ rotatedAway = {}
  /\ pr = [p \in Procs |-> Idle]
  /\ nops = 0

\* one client on each transport, one request at a time
NextSession ==
  \/ \E c \in {"c1"} : SseRequest(c)
  \/ \E c \in {"c1"} : SseVerified(c)
  \/ \E u \in Users : BroadcastToUser(u)
  \/ \E c \in {"c2"} : WsHandshake(c)
  \/ \E c \in {"c2"} : WsAuthenticated(c)
  \/ \E d \in Devices, u \in Users : BroadcastDeviceUpdate(d, u)
  \/ \E p \in {1} : StartLogout(p)
  \/ \E p \in {1} : StartLogoutAll(p)
  \/ \E p \in {1} : StartRevoke(p)
  \/ \E p \in {1} : VerifyBlacklist(p)
  \/ \E p \in {1} : LogoutAccess(p)
  \/ \E p \in {1} : LogoutAllAccess(p)
  \/ \E p \in {1} : RevokeAllFind(p)
  \/ \E p \in {1} : RevokeAllSave(p)
  \/ \E p \in {1} : RevokeBlacklist(p)

SpecSession == InitSession /\ [][NextSession]_vars

----------------------------------------------------------------------------
(* The token ledger under concurrent requests, no client connected *)

InitLedger ==
  \E k \in Preloads :
    /\ now \in {k, k + 1}
    /\ users = [u \in Users |->
                  IF u = "u1" THEN [refreshTokens |-> Preloaded(k), v |-> k] ELSE NoDoc]
    /\ blacklist = {}
    /\ issued = {generateRefreshToken(Payload("u1"), 1),
                 generateRefreshToken(Payload("u1"), k),
                 generateAccessToken(Payload("u1"), k)}
    /\ lockUntil = [u \in Users |-> 0]
    /\ rotatedAway = {}
    /\ pr = [p \in Procs |-> Idle]
    /\ nops = 0
    /\ connections = << >>
    /\ lastEventId = 0
    /\ eventHistory = <<>>
    /\ sse = [c \in Conns |-> NoConn]
    /\ nev = 0
    /\ published = <<>>
    /\ evicted = {}
    /\ unsent = {}
    /\ ws = [c \in Conns |-> NoSocket]
    /\ connectedUsers = << >>
    /\ socketUsers = << >>
    /\ wsPublished = <<>>

SpecLedger == InitLedger /\ [][NextLedger]_vars

----------------------------------------------------------------------------
(* rotateTokens when the store can fail: an awaited save() may reject (the  *)
(* connection to MongoDB is lost, a write times out). rotateTokens catches  *)
(* the error and throws it again.                                           *)

\* await user.removeRefreshToken(...) or await user.addRefreshToken(...)
\* rejects: the update has not been applied, the catch block rethrows
StoreFails(p) ==
  LET r == pr[p]
  IN /\ r.pc \in {"r_rm", "r_add"}
     /\ pr' = [pr EXCEPT ![p] = Done(r, "StoreError")]
     /\ UNCHANGED <<now, users, lockUntil, blacklist, issued, rotatedAway, nops, sseVars, wsVars>>

\* one POST /auth/refresh at a time
NextRotate ==
  \/ \E p \in {1} : StartRotate(p)
  \/ \E p \in {1} : VerifyBlacklist(p)
  \/ \E p \in {1} : VerifyFind(p)
  \/ \E p \in {1} : VerifySave(p)
  \/ \E p \in {1} : RotateFind(p)
  \/ \E p \in {1} : RotateBlacklist(p)
  \/ \E p \in {1} : RotateRemove(p)
  \/ \E p \in {1} : RotateAdd(p)
  \/ \E p \in {1} : StoreFails(p)
  \/ AdvanceClock

SpecRotate == InitLedger /\ [][NextRotate]_vars

----------------------------------------------------------------------------
(* verifyToken on tokens that already have a blacklist entry: the access     *)
(* token of a logout, which expires 15 minutes after it was signed while its *)
(* entry stays until the TTL monitor's next pass, and a forged token that    *)
(* was named in POST /auth/revoke                                            *)

\* no client is connected on either transport
NoClients ==
  /\ connections = << >>
  /\ lastEventId = 0
  /\ eventHistory = <<>>
  /\ sse = [c \in Conns |-> NoConn]
  /\ nev = 0
  /\ published = <<>>
  /\ evicted = {}
  /\ unsent = {}
  /\ ws = [c \in Conns |-> NoSocket]
  /\ connectedUsers = << >>
  /\ socketUsers = << >>
  /\ wsPublished = <<>>

\* the entries written by a logout with the access token signed at second k
\* and by a revoke of the forged token
Entries(k) ==
  { blacklistToken({}, generateAccessToken(Payload("u1"), k), "access", "u1", "logout").bl,
    blacklistToken({}, Forged, "access", "u1", "revoked").bl }

InitVerify ==
  \E k \in Preloads :
    /\ now \in {k + 1, k + AccessTTL}
    /\ users = [u \in Users |->
                  IF u = "u1" THEN [refreshTokens |-> Preloaded(k), v |-> k] ELSE NoDoc]
    /\ \E es \in SUBSET Entries(k) : blacklist = UNION es
    /\ issued = {generateRefreshToken(Payload("u1"), 1),
                 generateRefreshToken(Payload("u1"), k),
                 generateAccessToken(Payload("u1"), k)}
    /\ lockUntil = [u \in Users |-> 0]
    /\ rotatedAway = {}
    /\ pr = [p \in Procs |-> Idle]
    /\ nops = 0
    /\ NoClients

NextVerify ==
  \/ \E p \in Procs : StartVerify(p)
  \/ \E p \in Procs : VerifyBlacklist(p)
  \/ \E p \in Procs : VerifyFind(p)
  \/ \E p \in Procs : VerifySave(p)
  \/ TTLMonitor
  \/ AdvanceClock

SpecVerify == InitVerify /\ [][NextVerify]_vars

----------------------------------------------------------------------------
(* rotateTokens while failed logins lock the account: a client keeps sending *)
(* wrong passwords for a user who is already at 4 failed attempts            *)

\* POST /auth/login with a wrong password, the attempt that reaches 5:
\* incLoginAttempts sets lockUntil (login answers 423 while the lock holds)
LockOut(u) ==
  /\ ~isLocked(lockUntil[u], now)
  /\ lockUntil' = [lockUntil EXCEPT ![u] = now + LockTime]
  /\ UNCHANGED <<now, users, blacklist, issued, rotatedAway, pr, nops, sseVars, wsVars>>

NextLocked ==
  \/ \E p \in {1} : StartRotate(p)
  \/ \E p \in {1} : VerifyBlacklist(p)
  \/ \E p \in {1} : VerifyFind(p)
  \/ \E p \in {1} : VerifySave(p)
  \/ \E p \in {1} : RotateFind(p)
  \/ \E p \in {1} : RotateBlacklist(p)
  \/ \E p \in {1} : RotateRemove(p)
  \/ \E p \in {1} : RotateAdd(p)
  \/ \E u \in Users : LockOut(u)
  \/ AdvanceClock

SpecLocked == InitLedger /\ [][NextLocked]_vars

----------------------------------------------------------------------------
(* tokenService.cleanExpiredTokens on a store at rest: both users hold       *)
(* refresh-token records, and refresh tokens of u1 have been blacklisted by  *)
(* logouts, with expiries one second before, at and one second after the     *)
(* time of the sweep                                                         *)

SweepNow == RefreshTTL + 2

\* the seconds at which the refresh tokens of the store were signed
SignedAt == {1, 2, 3}

RECURSIVE RecordsOf(_, _)
\* the records of the logins of u at the seconds ss, in the order of the logins
RecordsOf(u, ss) ==
  IF ss = {} THEN <<>>
  ELSE LET s == CHOOSE x \in ss : \A y \in ss : x <= y
       IN <<Rec(generateRefreshToken(Payload(u), s), s + RefreshTTL, s)>>
          \o RecordsOf(u, ss \ {s})

\* the entries of logouts with the refresh tokens u1 was given at the seconds ss
LogoutEntries(ss) ==
  UNION {blacklistToken({}, generateRefreshToken(Payload("u1"), s), "refresh", "u1",
                        "logout").bl : s \in ss}

InitSweep ==
  /\ now = SweepNow
  /\ \E s1, s2 \in SUBSET SignedAt :
       users = [u \in Users |->
                  IF u = "u1" THEN [refreshTokens |-> RecordsOf(u, s1), v |-> Cardinality(s1)]
                  ELSE [refreshTokens |-> RecordsOf(u, s2), v |-> Cardinality(s2)]]
  /\ \E ss \in SUBSET SignedAt : blacklist = LogoutEntries(ss)
  /\ issued = {}
  /\ lockUntil = [u \in Users |-> 0]
  /\ rotatedAway = {}
  /\ pr = [p \in Procs |-> Idle]
  /\ nops = 0
  /\ NoClients

NextSweep ==
  \/ \E p \in Procs : StartSweep(p)
  \/ \E p \in Procs : SweepBlacklist(p)
  \/ \E p \in Procs : SweepFind(p)
  \/ \E p \in Procs : SweepUser(p)

SpecSweep == InitSweep /\ [][NextSweep]_vars

----------------------------------------------------------------------------
(* The scheduled work of the process on the token store. server.js loads one *)
(* background job, jobs/deviceDeactivationJob, which node-cron runs at the   *)
(* top of every hour; the cleanup jobs of the export worker clean export     *)
(* files, export jobs and queue jobs. MongoDB's TTL monitor runs on the      *)
(* blacklist collection.                                                     *)

\* the hourly job: Device.updateMany on devices idle for 24 hours; it reads
\* and writes nothing of the users' refresh tokens or of the blacklist
DeviceDeactivationJob ==
  /\ nops < MaxOps
  /\ nops' = nops + 1
  /\ now' = now + Hour
  /\ UNCHANGED <<users, lockUntil, blacklist, issued, rotatedAway, pr, sseVars, wsVars>>

\* the store when u1 has logged out with each refresh token it was given
InitReaper == InitSweep /\ blacklist = LogoutEntries(SignedAt)

NextReaper ==
  \/ DeviceDeactivationJob
  \/ TTLMonitor

\* cron fires every hour and the TTL monitor keeps running
SpecReaper ==
  InitReaper /\ [][NextReaper]_vars /\ WF_vars(DeviceDeactivationJob) /\ WF_vars(TTLMonitor)

----------------------------------------------------------------------------
(* verifyToken on refresh tokens that u1 has logged out with, while the      *)
(* sweep and the TTL monitor purge the blacklist: shortly after the logouts, *)
(* and 7 days later with the entries not yet purged                          *)

\* the refresh tokens u1 was given at its logins
LoggedOut == {generateRefreshToken(Payload("u1"), s) : s \in SignedAt}

InitPurge ==
  /\ now \in {4, SweepNow, SweepNow + 1}
  /\ users = [u \in Users |-> NoDoc]
  /\ blacklist = LogoutEntries(SignedAt)
  /\ issued = LoggedOut
  /\ lockUntil = [u \in Users |-> 0]
  /\ rotatedAway = {}
  /\ pr = [p \in Procs |-> Idle]
  /\ nops = 0
  /\ NoClients

NextPurge ==
  \/ \E p \in Procs : StartVerify(p)
  \/ \E p \in Procs : VerifyBlacklist(p)
  \/ \E p \in Procs : StartSweep(p)
  \/ \E p \in Procs : SweepBlacklist(p)
  \/ \E p \in Procs : SweepFind(p)
  \/ TTLMonitor
  \/ AdvanceClock

SpecPurge == InitPurge /\ [][NextPurge]_vars

----------------------------------------------------------------------------
(* Handshakes on both transports while failed logins lock accounts *)

NextGate ==
  \/ \E c \in Conns : SseRequest(c)
  \/ \E c \in Conns : SseVerified(c)
  \/ \E c \in Conns : SseClientClose(c)
  \/ \E c \in Conns : WsHandshake(c)
  \/ \E c \in Conns : WsAuthenticated(c)
  \/ \E c \in Conns : WsClose(c)
  \/ \E u \in Users : LockOut(u)

SpecGate == InitRealtime /\ [][NextGate]_vars

----------------------------------------------------------------------------
(* user.addRefreshToken on its own, on a user who holds 5 records. The      *)
(* array is in the order the $push updates reached the store, which need    *)
(* not be the order of the createdAt stamps the handlers gave the records,  *)
(* and two records made in the same second carry the same stamp.            *)

MaxStamp == 5         \* the records held were created at seconds 1..MaxStamp

FullArrays ==
  {[i \in 1..MaxRefreshTokens |->
      Rec(generateRefreshToken(Payload("u1"), cs[i]), cs[i] + RefreshTTL, cs[i])] :
     cs \in [1..MaxRefreshTokens -> 1..MaxStamp]}

InitAdd ==
  \E a \in FullArrays :
    /\ now = MaxStamp + 1
    /\ users = [u \in Users |->
                  IF u = "u1" THEN [refreshTokens |-> a, v |-> MaxRefreshTokens]
                  ELSE NoDoc]
    /\ blacklist = {}
    /\ issued = {}
    /\ lockUntil = [u \in Users |-> 0]
    /\ rotatedAway = {}
    /\ pr = [p \in Procs |-> Idle]
    /\ nops = 0
    /\ connections = << >>
    /\ lastEventId = 0
    /\ eventHistory = <<>>
    /\ sse = [c \in Conns |-> NoConn]
    /\ nev = 0
    /\ published = <<>>
    /\ evicted = {}
    /\ unsent = {}
    /\ ws = [c \in Conns |-> NoSocket]
    /\ connectedUsers = << >>
    /\ socketUsers = << >>
    /\ wsPublished = <<>>

\* User.findById, user.addRefreshToken(token, expiresAt) and its save(), with
\* no other request in flight; pr[1].arr keeps the array that was loaded
AddRefreshToken(u) ==
  LET doc == users[u]
      tok == generateRefreshToken(Payload(u), now)
      arr == addRefreshToken(doc.refreshTokens, tok, now + RefreshTTL, now)
      s == SaveAdded(users, u, doc, arr)
  IN /\ pr[1].pc = "idle"
     /\ users' = s.db
     /\ pr' = [pr EXCEPT ![1] =
          [Idle EXCEPT !.pc = "done", !.op = "add", !.user = u, !.newR = tok,
                       !.arr = doc.refreshTokens,
                       !.res = IF s.ok THEN "ok" ELSE "VersionError"]]
     /\ UNCHANGED <<now, lockUntil, blacklist, issued, rotatedAway, nops, sseVars, wsVars>>

NextAdd == \E u \in {"u1"} : AddRefreshToken(u)

SpecAdd == InitAdd /\ [][NextAdd]_vars

----------------------------------------------------------------------------
(* Claims about the token ledger *)

VerifyCalls == {p \in Procs : pr[p].op = "verify" /\ pr[p].pc = "done"}

\* C1: a verifyToken call whose token has a blacklist entry when the call
\* looks it up fails with 'Token has been revoked', whatever the kind and
\* whatever the token's signature and expiry.
C1_BlacklistedIsRevoked ==
  \A p \in Procs :
    pr[p].sawBl => pr[p].pc = "done" /\ pr[p].res = "Token has been revoked"

\* C1 witness: a well signed, unexpired token was refused as revoked
C1_Witness ==
  \E p \in VerifyCalls :
    /\ pr[p].sawBl /\ pr[p].sawLive /\ pr[p].tok.sig = "good"
    /\ pr[p].res = "Token has been revoked"

\* C2: verifyToken(token, 'access') on an access token signed by
\* generateAccessToken that is neither blacklisted nor expired when checked
\* succeeds and returns the id and role that were signed.
C2_ValidAccessVerifies ==
  \A p \in VerifyCalls : \A u \in Users :
    ( /\ pr[p].kind = "access"
      /\ pr[p].tok = generateAccessToken(Payload(u), pr[p].tok.iat)
      /\ ~pr[p].sawBl
      /\ pr[p].sawLive )
    => pr[p].res = "ok" /\ pr[p].decoded = Payload(u)

\* C2 witness: an admin's access token was verified
C2_Witness ==
  \E p \in VerifyCalls :
    /\ pr[p].kind = "access" /\ pr[p].res = "ok"
    /\ pr[p].tok = generateAccessToken(Payload("u2"), pr[p].tok.iat)
    /\ pr[p].decoded = Payload("u2")

\* C3: two rotateTokens calls in flight with the same refresh token never
\* both return a new token pair.
C3_RotationSingleUse ==
  \A p, q \in Procs :
    ( /\ p # q
      /\ pr[p].op = "rotate" /\ pr[q].op = "rotate"
      /\ pr[p].tok = pr[q].tok
      /\ pr[p].pc = "done" /\ pr[q].pc = "done" )
    => ~(pr[p].res = "ok" /\ pr[q].res = "ok")

\* C4: a verifyToken(old, 'refresh') or rotateTokens(old) that starts after a
\* rotateTokens(old) has succeeded does not succeed.
C4_RotatedNeverAgain ==
  \A p \in Procs :
    ( /\ pr[p].late
      /\ pr[p].pc = "done"
      /\ pr[p].op = "rotate" \/ (pr[p].op = "verify" /\ pr[p].kind = "refresh") )
    => pr[p].res # "ok"

\* C5: every user holds at most 5 refresh-token records.
C5_AtMostFiveRecords ==
  \A u \in Users : Len(users[u].refreshTokens) <= MaxRefreshTokens

----------------------------------------------------------------------------
(* Claims about addRefreshToken *)

\* how many times a record occurs in an array
Count(arr, r) == Cardinality({i \in 1..Len(arr) : arr[i] = r})

Records(arr) == {arr[i] : i \in 1..Len(arr)}

\* arr without its element at position i
Without(arr, i) == SubSeq(arr, 1, i - 1) \o SubSeq(arr, i + 1, Len(arr))

StrictlyByCreatedAt(arr) ==
  \A i \in 1..(Len(arr) - 1) : arr[i].createdAt < arr[i + 1].createdAt

\* C6: addRefreshToken on a user who holds 5 records leaves 5 records: the
\* new one, and the old ones less exactly one record, which is one of the
\* earliest created; records [t1..t5] created in that order become [t2..t6].
C6_EvictsEarliest ==
  \A p \in Procs :
    (pr[p].op = "add" /\ pr[p].pc = "done" /\ Len(pr[p].arr) = MaxRefreshTokens) =>
      LET old == pr[p].arr
          new == users[pr[p].user].refreshTokens
          t6 == Rec(pr[p].newR, now + RefreshTTL, now)
      IN /\ pr[p].res = "ok"
         /\ Len(new) = MaxRefreshTokens
         /\ new[Len(new)] = t6
         /\ \E i \in 1..Len(old) :
              /\ \A j \in 1..Len(old) : old[i].createdAt <= old[j].createdAt
              /\ \A r \in Records(old) \cup Records(new) :
                   Count(SubSeq(new, 1, Len(new) - 1), r) = Count(Without(old, i), r)
         /\ StrictlyByCreatedAt(old) => new = Append(Tail(old), t6)

\* C6 witness: [t1..t5] became [t2..t6]
C6_Witness ==
  /\ pr[1].op = "add" /\ pr[1].pc = "done"
  /\ pr[1].arr = Preloaded(MaxRefreshTokens)
  /\ users["u1"].refreshTokens =
       Append(Tail(Preloaded(MaxRefreshTokens)),
              Rec(generateRefreshToken(Payload("u1"), now), now + RefreshTTL, now))

----------------------------------------------------------------------------
(* Claims about the push stream *)

\* C7: the events broadcast (to a user or to all) carry strictly increasing
\* ids in the order they were broadcast, so no two of them share an id, and
\* none is ahead of the id counter.
C7_PublishIdsIncrease ==
  /\ \A i \in 1..(Len(published) - 1) : published[i].id < published[i + 1].id
  /\ \A i \in {Len(published)} \ {0} : published[i].id <= lastEventId

\* C7 witness: a broadcast to a user, then a broadcast to all, a connection's
\* own events having taken ids in between
C7_Witness ==
  \E i \in 1..(Len(published) - 1) :
    /\ published[i].event = "device-update"
    /\ published[i + 1].event = "announcement"
    /\ published[i + 1].id > published[i].id + 1

\* the replay handleConnection has just done for response c
Replayed(c) ==
  /\ sse[c].st = "verifying" /\ sse'[c].st = "open"
  /\ sse[c].lastId > 0 /\ ~sse[c].gone

\* C8: the events handleConnection replays for Last-Event-ID l are in
\* ascending id order, each has an id greater than l, and none of them had
\* been shifted out of the history when it was replayed.
C8_ReplayAscendingLive ==
  [][\A c \in Conns :
       Replayed(c) =>
         LET es == sse'[c].replayed
             sent == SubSeq(sse'[c].written, 2, Len(sse'[c].written))
         IN /\ \A i \in 1..(Len(es) - 1) : es[i].id < es[i + 1].id
            /\ \A i \in 1..Len(es) : es[i].id > sse[c].lastId /\ es[i].id \notin evicted
            /\ sent = [i \in 1..Len(es) |-> Frame(es[i].id, es[i].event, es[i].data)]]_vars

\* C8 witness: a replay for Last-Event-ID 1 after event 2 had been shifted out
C8_Witness ==
  \E c \in Conns :
    /\ sse[c].st = "open" /\ sse[c].lastId = 1
    /\ sse[c].replayed # <<>>
    /\ 2 \in evicted

\* the last n elements of a sequence
LastN(q, n) == SubSeq(q, Len(q) - n + 1, Len(q))

Min(a, b) == IF a < b THEN a ELSE b

\* C9: the history holds at most maxHistorySize events, and they are the
\* events broadcast most recently, in order; a replay of everything returns
\* exactly those.
C9_HistoryIsMostRecent ==
  /\ Len(eventHistory) <= maxHistorySize
  /\ eventHistory = LastN(published, Min(Len(published), maxHistorySize))
  /\ replayEvents(eventHistory, 0) = eventHistory

\* C9 witness: two events more than the history holds have been broadcast
C9_Witness ==
  /\ Len(published) = maxHistorySize + 2
  /\ Len(eventHistory) = maxHistorySize
  /\ eventHistory[1].id = 3

----------------------------------------------------------------------------
(* Claims about fan-out *)

BroadcastEvents == {"device-update", "announcement"}

\* the ids of the events broadcast to user u or to all since the n-th broadcast
DueIds(u, n) ==
  LET q == SelectSeq(SubSeq(published, n + 1, Len(published)),
                     LAMBDA e : e.data \in {u, "all"})
  IN [i \in 1..Len(q) |-> q[i].id]

\* the ids of the broadcast events written to a response after its replay
LiveIds(r) ==
  LET q == SelectSeq(SubSeq(r.written, 2 + Len(r.replayed), Len(r.written)),
                     LAMBDA f : f.event \in BroadcastEvents)
  IN [i \in 1..Len(q) |-> q[i].id]

\* the rooms broadcastDeviceUpdate emits an update to
RoomsOf(e) == {DeviceRoom(e.deviceId), UserRoom(e.ownerId)}

\* the numbers of the updates broadcast to a room since the n-th update
DueUpdates(room, n) ==
  LET q == SelectSeq(SubSeq(wsPublished, n + 1, Len(wsPublished)),
                     LAMBDA e : room \in RoomsOf(e))
  IN [i \in 1..Len(q) |-> q[i].status]

\* a sequence of numbers with runs of one number made one element
RECURSIVE Runs(_)
Runs(q) ==
  IF Len(q) <= 1 THEN q
  ELSE IF q[1] = q[2] THEN Runs(Tail(q))
  ELSE <<q[1]>> \o Runs(Tail(q))

\* the numbers of the updates for a room a socket has been emitted since it
\* joined the room after the n-th update
GotUpdates(s, room, n) ==
  LET q == SelectSeq(s.rx, LAMBDA f :
                       /\ f.event = "device-update"
                       /\ f.data.status > n
                       /\ room \in RoomsOf(wsPublished[f.data.status]))
  IN Runs([i \in 1..Len(q) |-> q[i].data.status])

\* C10: a response in the connection map has been written every event
\* broadcast to its user or to all since it entered the map, in id order; a
\* socket in a room has been emitted every update broadcast to the room since
\* it joined, in broadcast order.
C10_SubscriberGetsAllInOrder ==
  /\ \A c \in Conns :
       (sse[c].subAt >= 0 /\ ~sse[c].gone) =>
         LiveIds(sse[c]) = DueIds(sse[c].user, sse[c].subAt)
  /\ \A c \in Conns : \A room \in ws[c].rooms :
       GotUpdates(ws[c], room, ws[c].joined[room]) = DueUpdates(room, ws[c].joined[room])

\* C10 witness: a response that entered the map after an event had been
\* broadcast has been written two later events
C10_Witness ==
  \E c \in Conns :
    /\ sse[c].subAt >= 1 /\ ~sse[c].gone
    /\ Len(LiveIds(sse[c])) = 2

----------------------------------------------------------------------------
(* Claims about the connection registry *)

\* the responses of user u that are open to a client
LiveResponses(q, u) ==
  {c \in Conns : q[c].st = "open" /\ q[c].user = u /\ ~q[c].ended /\ ~q[c].gone}

\* the sockets of user u that are connected
LiveSockets(w, u) == {c \in Conns : w[c].st = "connected" /\ w[c].userId = u}

\* C11: when closeUserConnections(u) or disconnectUser(u) returns, the maps
\* hold no entry for u (connections; connectedUsers and socketUsers) and no
\* response or socket of u is left open.
C11_ForcedDisconnectEmpties ==
  [][\A u \in Users :
       /\ CloseUserConnections(u) =>
            /\ u \notin DOMAIN connections'
            /\ LiveResponses(sse', u) = {}
       /\ DisconnectUser(u) =>
            /\ u \notin DOMAIN connectedUsers'
            /\ \A x \in DOMAIN socketUsers' : socketUsers'[x].userId # u
            /\ LiveSockets(ws', u) = {}]_vars

\* C11 witness: a response was ended by closeUserConnections and a socket was
\* closed by disconnectUser, and both maps are empty
C11_Witness ==
  /\ \E c \in Conns : sse[c].st = "open" /\ sse[c].ended
  /\ \E c \in Conns : ws[c].st = "kicked"
  /\ connections = << >>
  /\ connectedUsers = << >>

----------------------------------------------------------------------------
(* Claims about topics *)

\* how many times update number n has been emitted to socket s
Copies(s, n) ==
  Cardinality({i \in 1..Len(s.rx) :
                 s.rx[i].event = "device-update" /\ s.rx[i].data.status = n})

\* socket s was in a room update number n was broadcast to
Subscribed(s, n) ==
  \E room \in RoomsOf(wsPublished[n]) \cap s.rooms : s.joined[room] < n

\* C12: a broadcastDeviceUpdate emits one copy of the update to each socket
\* that is in the device's room or in the owner's room, and nothing to the
\* other sockets.
C12_OneCopyPerSubscriber ==
  \A c \in Conns : \A n \in 1..Len(wsPublished) :
    Copies(ws[c], n) = IF Subscribed(ws[c], n) THEN 1 ELSE 0

----------------------------------------------------------------------------
(* Claims about revocation *)

\* the tokens of the records in an array
TokensOf(arr) == {arr[i].token : i \in 1..Len(arr)}

\* C13: when revokeAllUserTokens(userId, reason) returns, for the reason
\* logoutAll passes as for the default one, and no other request having
\* changed the user's document since the call loaded it, the user holds no
\* record, the count returned is the number of records it found, and each of
\* their tokens (unless it has expired) has a blacklist entry.
C13_RevokeAllBlacklistsAll ==
  [][\A p \in Procs :
       (RevokeAllSave(p) /\ pr'[p].res = "ok" /\ users[pr[p].user] = pr[p].doc) =>
         /\ users'[pr[p].user].refreshTokens = <<>>
         /\ pr'[p].count = Len(pr[p].doc.refreshTokens)
         /\ \A t \in TokensOf(pr[p].doc.refreshTokens) :
              now < t.exp => isBlacklisted(blacklist', t)]_vars

----------------------------------------------------------------------------
(* Claims about the handshake *)

\* a token that is missing, malformed, expired or blacklisted
BadToken(t) ==
  \/ t = NoTok
  \/ t.sig # "good"
  \/ now >= t.exp
  \/ \E e \in blacklist : e.token = t

\* the responses held in SSEService.connections
Tracked(m) == UNION {Range(m[u]) : u \in DOMAIN m}

\* the socket ids held in RealtimeService.connectedUsers and socketUsers
Registered(m, su) == UNION {m[u] : u \in DOMAIN m} \cup DOMAIN su

\* C14: a handshake without a token is answered at once and one with a
\* malformed, expired or blacklisted token once it is verified, both by a
\* rejection that leaves the maps as they were; a response or socket enters
\* the maps only in the step that verified its token, the token being none
\* of these.
C14_BadHandshakeRejected ==
  [][\A c \in Conns :
       /\ (sse[c].st = "none" /\ sse'[c].st # "none") =>
            /\ UNCHANGED connections
            /\ \/ sse'[c].st = "rejected"
               \/ sse'[c].st = "verifying" /\ sse'[c].token # NoTok
       /\ (sse[c].st = "verifying" /\ sse'[c].st # "verifying") =>
            IF BadToken(sse[c].token)
            THEN sse'[c].st = "rejected" /\ UNCHANGED connections
            ELSE sse'[c].st = "open"
       /\ (c \in Tracked(connections') \ Tracked(connections)) =>
            sse[c].st = "verifying" /\ ~BadToken(sse[c].token)
       /\ (ws[c].st = "none" /\ ws'[c].st # "none") =>
            /\ UNCHANGED <<connectedUsers, socketUsers>>
            /\ \/ ws'[c].st = "rejected"
               \/ ws'[c].st = "verifying" /\ ws'[c].token # NoTok
       /\ (ws[c].st = "verifying" /\ ws'[c].st # "verifying") =>
            IF BadToken(ws[c].token)
            THEN ws'[c].st = "rejected" /\ UNCHANGED <<connectedUsers, socketUsers>>
            ELSE ws'[c].st \in {"connected", "closed"}
       /\ (c \in Registered(connectedUsers', socketUsers')
                   \ Registered(connectedUsers, socketUsers)) =>
            ws[c].st = "verifying" /\ ~BadToken(ws[c].token)]_vars

\* C14 witness: a handshake was rejected on each transport and the maps are
\* empty
C14_Witness ==
  /\ \E c \in Conns : sse[c].st = "rejected"
  /\ \E c \in Conns : ws[c].st = "rejected"
  /\ connections = << >>
  /\ connectedUsers = << >> /\ socketUsers = << >>

----------------------------------------------------------------------------
(* Claims about control messages *)

\* messages that lack the field their handler requires
Lacking == {NoData, EmptyObject}

\* C15: a join-organization, leave-organization or device-status-request
\* message without its required field has the socket emitted one 'error'
\* event and leaves it connected, in the maps, and in the rooms it was in.
C15_MalformedMessageKeepsSocket ==
  [][\A c \in Conns : \A data \in Lacking :
       (JoinOrganization(c, data) \/ LeaveOrganization(c, data)
          \/ DeviceStatusRequest(c, data)) =>
         /\ ws'[c].st = "connected"
         /\ Len(ws'[c].rx) = Len(ws[c].rx) + 1
         /\ ws'[c].rx[Len(ws'[c].rx)].event = "error"
         /\ ws'[c].rooms = ws[c].rooms
         /\ c \in DOMAIN socketUsers'
         /\ ws[c].userId \in DOMAIN connectedUsers'
         /\ c \in connectedUsers'[ws[c].userId]]_vars

----------------------------------------------------------------------------
(* Claims about replay after a reconnect *)

\* C16: every broadcastToUser(u) call, whether or not u has a response in
\* the map, appends its event to the history under the next id; and a
\* handshake with Last-Event-ID l > 0 writes to the new response every event
\* of the history for its user, or for all, whose id is greater than l.
C16_MissedEventsRetainedAndReplayed ==
  [][/\ \A u \in Users :
          BroadcastToUser(u) =>
            /\ lastEventId' = lastEventId + 1
            /\ eventHistory' # <<>>
            /\ eventHistory'[Len(eventHistory')] =
                 [id |-> lastEventId', event |-> "device-update", data |-> u]
     /\ \A c \in Conns :
          Replayed(c) =>
            \A i \in 1..Len(eventHistory) :
              ( /\ eventHistory[i].id > sse[c].lastId
                /\ eventHistory[i].data \in {sse'[c].user, "all"} )
              => \E j \in 1..Len(sse'[c].written) :
                   sse'[c].written[j] = Frame(eventHistory[i].id, eventHistory[i].event,
                                              eventHistory[i].data)]_vars

----------------------------------------------------------------------------
(* Claims about revocation and open connections *)

\* C17: once the token a response or a socket was admitted with has a
\* blacklist entry (logout, logout-all, revoke), nothing more is written to
\* the response or emitted to the socket other than the notice of its
\* teardown.
C17_RevokedConnectionGetsNothing ==
  [][\A c \in Conns :
       /\ ( /\ sse[c].st = "open"
            /\ isBlacklisted(blacklist, sse[c].token)
            /\ Len(sse'[c].written) > Len(sse[c].written) )
          => /\ sse'[c].ended
             /\ sse'[c].written[Len(sse'[c].written)].event = "force-disconnect"
       /\ ( /\ ws[c].st = "connected"
            /\ isBlacklisted(blacklist, ws[c].token)
            /\ ws'[c].st = "connected" )
          => ws'[c].rx = ws[c].rx]_vars

----------------------------------------------------------------------------
(* Claims about rotation *)

\* the rotateTokens calls that have returned or thrown after their
\* verifyToken had succeeded
Rotations == {p \in Procs : pr[p].op = "rotate" /\ pr[p].pc = "done" /\ pr[p].user # "none"}

\* the user holds a record of the token
Holds(u, t) == \E i \in 1..Len(users[u].refreshTokens) : users[u].refreshTokens[i].token = t

\* C18: a rotateTokens call that fails, no other request being in flight,
\* leaves the old token's record with the user (the store as it was), never
\* the old record removed and no record of a new token stored.
C18_FailedRotateIsUndone ==
  \A p \in Rotations :
    pr[p].res # "ok" => Holds(pr[p].user, pr[p].tok) \/ Holds(pr[p].user, pr[p].newR)

\* C19: a rotateTokens(old) call that returns has signed an access token and
\* a refresh token for the subject, the refresh token is not old, and as the
\* call returns the user holds an unexpired record of it and it is not
\* blacklisted (verifyToken(..., 'refresh') would pass).
C19_RotateReturnsFreshStoredToken ==
  [][\A p \in Procs :
       (RotateAdd(p) /\ pr'[p].res = "ok") =>
         LET r == pr'[p]
         IN /\ r.newA = generateAccessToken(Payload(r.user), r.newA.iat)
            /\ r.newR = generateRefreshToken(Payload(r.user), r.newR.iat)
            /\ r.newR # r.tok
            /\ hasValidRefreshToken(users'[r.user].refreshTokens, r.newR, now)
            /\ ~isBlacklisted(blacklist', r.newR)]_vars

\* C20: as a rotateTokens(old) call returns, the blacklist holds an entry for
\* old of type 'refresh' with reason 'rotated'.
C20_RotatedTokenIsBlacklisted ==
  [][\A p \in Procs :
       (RotateAdd(p) /\ pr'[p].res = "ok") =>
         \E e \in blacklist' :
           /\ e.token = pr[p].tok
           /\ e.type = "refresh"
           /\ e.reason = "rotated"]_vars

----------------------------------------------------------------------------
(* Claims about the order of the checks in verifyToken *)

\* the token has expired or does not carry the server's signature
Stale(r) == ~r.sawLive \/ VTok(r).sig # "good"

\* C21: a verifyToken call whose token has a blacklist entry and is also
\* expired or badly signed fails with 'Token has been revoked', not with
\* 'Token expired' or 'Invalid token'.
C21_RevokedBeforeStale ==
  \A p \in Procs :
    (pr[p].sawBl /\ Stale(pr[p])) => pr[p].res = "Token has been revoked"

\* C21 witness: an expired blacklisted token and a forged blacklisted token
\* were both refused as revoked
C21_Witness ==
  \E p, q \in VerifyCalls :
    /\ pr[p].sawBl /\ ~pr[p].sawLive /\ pr[p].tok.sig = "good"
    /\ pr[p].res = "Token has been revoked"
    /\ pr[q].sawBl /\ pr[q].tok = Forged
    /\ pr[q].res = "Token has been revoked"

----------------------------------------------------------------------------
(* Claims about the refresh-token record check *)

\* the user the token names holds no unexpired record of the token
NoLiveRecord(t) ==
  ~\E i \in 1..Len(users[t.id].refreshTokens) :
     /\ users[t.id].refreshTokens[i].token = t
     /\ users[t.id].refreshTokens[i].expiresAt > now

\* a step of verifyToken(token, 'refresh') up to and including the record check
RefreshCheck(p) ==
  /\ VerifyBlacklist(p) \/ VerifyFind(p)
  /\ VKind(pr[p]) = "refresh"

\* the call goes on to the record check, or has failed with 'Invalid refresh token'
NoRecordOutcome(r) ==
  r.pc = "v_find" \/ (r.pc = "done" /\ r.res = "Invalid refresh token")

----------------------------------------------------------------------------
(* Claims about access tokens and the refresh-token store *)

\* verifyToken(token, 'access'): on its own, or as the auth middleware's check
AccessCall(r) ==
  \/ r.op \in {"logout", "logoutAll", "revoke"}
  \/ r.op = "verify" /\ r.kind = "access"

\* what the signature, the expiry and the blacklist entry of a token say
AccessVerdict(t) ==
  IF \E e \in blacklist : e.token = t THEN "Token has been revoked"
  ELSE IF t.sig # "good" THEN "Invalid token"
  ELSE IF now >= t.exp THEN "Token expired"
  ELSE "ok"

\* tokens with an access token's lifetime
ShortLived == {t \in ClientTokens : t.exp - t.iat = AccessTTL}

\* a step that reads or edits refresh-token records, or blacklists one
RecordStep ==
  \E p \in Procs :
    \/ VerifyFind(p) \/ VerifySave(p)
    \/ RotateFind(p) \/ RotateBlacklist(p) \/ RotateRemove(p) \/ RotateAdd(p)
    \/ LoginSave(p) \/ LogoutRefresh(p) \/ LogoutRemove(p)
    \/ RevokeAllFind(p) \/ RevokeAllBlacklist(p) \/ RevokeAllSave(p)
    \/ RevokeRemove(p) \/ SweepUser(p)

\* C23: verifyToken(token, 'access') ends in the step that looks up the
\* blacklist and runs jwt.verify, with the outcome the token's blacklist
\* entry, signature and expiry give, and writes neither collection; and no
\* step that reads or edits refresh-token records (revokeAllUserTokens
\* included) changes that outcome for any access token.
C23_AccessIndependentOfRecords ==
  [][/\ \A p \in Procs :
          (VerifyBlacklist(p) /\ AccessCall(pr[p])) =>
            /\ users' = users /\ blacklist' = blacklist
            /\ IF AccessVerdict(VTok(pr[p])) = "ok"
               THEN \/ pr'[p].pc = "done" /\ pr'[p].res = "ok"
                    \/ pr[p].op # "verify" /\ pr'[p].pc = HandlerPc(pr[p].op)
               ELSE pr'[p].pc = "done" /\ pr'[p].res = AccessVerdict(VTok(pr[p]))
     /\ RecordStep =>
          \A t \in ShortLived : AccessVerdict(t)' = AccessVerdict(t)]_vars

\* C23 witness: revokeAllUserTokens has blacklisted and cleared u1's records,
\* and u1's access token has verified
C23_Witness ==
  \E p \in VerifyCalls, q \in Procs :
    /\ pr[q].op = "revokeAll" /\ pr[q].pc = "done" /\ pr[q].res = "ok"
    /\ pr[q].user = "u1" /\ pr[q].count > 0
    /\ users["u1"].refreshTokens = <<>>
    /\ blacklist # {}
    /\ pr[p].kind = "access" /\ pr[p].res = "ok" /\ pr[p].decoded = Payload("u1")

----------------------------------------------------------------------------
(* Claims about locked accounts *)

\* the user's lockout window is in force
Locked(u) == lockUntil[u] > now

\* the tokens the user holds a record of
Held(db, u) == {db[u].refreshTokens[i].token : i \in 1..Len(db[u].refreshTokens)}

\* C24: while the token's subject is locked, no step of rotateTokens up to
\* its isLocked check adds a blacklist entry, hands out a token or changes
\* which tokens the subject holds records of, and the check ends the call
\* with 'Account is temporarily locked' and no token pair.
C24_LockedRotateChangesNothing ==
  [][\A p \in Procs :
       ( /\ pr[p].op = "rotate"
         /\ pr[p].pc \in {"v_bl", "v_find", "v_save", "r_find"}
         /\ pr'[p] # pr[p]
         /\ Locked(pr[p].tok.id) )
       => /\ blacklist' = blacklist
          /\ issued' = issued
          /\ Held(users', pr[p].tok.id) = Held(users, pr[p].tok.id)
          /\ pr'[p].newA = NoTok /\ pr'[p].newR = NoTok
          /\ RotateFind(p) =>
               pr'[p].pc = "done" /\ pr'[p].res = "Account is temporarily locked"]_vars

\* C24 witness: a rotation with a refresh token that verified was refused
\* because the account is locked
C24_Witness ==
  \E p \in Procs :
    /\ pr[p].op = "rotate" /\ pr[p].pc = "done"
    /\ pr[p].res = "Account is temporarily locked"
    /\ Locked(pr[p].user)
    /\ pr[p].tok \in Held(users, pr[p].user)
    /\ blacklist = {}

----------------------------------------------------------------------------
(* Claims about revokeAllUserTokens racing with rotateTokens *)

\* the blacklist holds a refresh entry for the token
RefreshEntry(bl, t) == \E e \in bl : e.token = t /\ e.type = "refresh"

\* slot p holds a rotateTokens call and slot q a revokeAllUserTokens call for
\* the same user; two occupied slots hold calls that were in flight together
Racing(p, q) ==
  /\ p # q
  /\ pr[p].op = "rotate" /\ pr[p].pc # "idle"
  /\ pr[q].op = "revokeAll" /\ pr[q].pc # "idle"
  /\ pr[q].user = pr[p].tok.id

\* C25: when revokeAllUserTokens(U) and a rotateTokens(old) for U run
\* interleaved, revokeAllUserTokens returns with every (unexpired) token of
\* the records it loaded blacklisted, and once both calls have returned old
\* is blacklisted too and U's records are those of the later write: none, or
\* a set holding the new refresh token.
C25_RevokeAllRacingRotate ==
  [][\A p, q \in Procs :
       Racing(p, q) =>
         /\ (RevokeAllSave(q) /\ pr'[q].res = "ok") =>
              \A t \in TokensOf(pr[q].doc.refreshTokens) :
                now < t.exp => RefreshEntry(blacklist', t)
         /\ ( /\ RevokeAllSave(q) \/ RotateAdd(p)
              /\ pr'[p].pc = "done" /\ pr'[p].res = "ok"
              /\ pr'[q].pc = "done" /\ pr'[q].res = "ok" ) =>
              /\ now < pr[p].tok.exp => RefreshEntry(blacklist', pr[p].tok)
              /\ \/ users'[pr[q].user].refreshTokens = <<>>
                 \/ pr'[p].newR \in TokensOf(users'[pr[q].user].refreshTokens)]_vars

----------------------------------------------------------------------------
(* Claims about unregistering *)

\* running the handler again, or for a connection that is not in the map,
\* changes nothing
SseIdempotent(m, u, c) ==
  LET m1 == handleDisconnection(m, u, c)
  IN /\ handleDisconnection(m1, u, c) = m1
     /\ (u \notin DOMAIN m \/ c \notin Range(m[u])) => m1 = m

WsIdempotent(m, u, c) ==
  LET m1 == wsHandleDisconnection(m, u, c)
  IN /\ wsHandleDisconnection(m1, u, c) = m1
     /\ (u \notin DOMAIN m \/ c \notin m[u]) => m1 = m

\* C26: on every registry the program reaches, handleDisconnection for a
\* connection that is absent (or a second time for the same connection)
\* changes nothing, on both transports, and no user's entry is an empty set.
C26_UnregisterConverges ==
  /\ \A u \in DOMAIN connections : connections[u] # <<>>
  /\ \A u \in DOMAIN connectedUsers : connectedUsers[u] # {}
  /\ \A u \in Users, c \in Conns :
       /\ SseIdempotent(connections, u, c)
       /\ WsIdempotent(connectedUsers, u, c)

\* C26 witness: closeUserConnections ended a response and the client's
\* 'aborted' and 'close' handlers ran afterwards, while the other user's
\* connection stays registered
C26_Witness ==
  \E c, d \in Conns :
    /\ sse[c].st = "open" /\ sse[c].ended /\ sse[c].gone
    /\ sse[c].user \notin DOMAIN connections
    /\ sse[d].st = "open" /\ ~sse[d].gone
    /\ sse[d].user \in DOMAIN connections

----------------------------------------------------------------------------
(* Claims about a registered socket *)

\* C27: a socket whose handshake succeeded and that has not been unregistered
\* is in its user's set of connectedUsers and in socketUsers, is in the rooms
\* user:<id> and role:<role> of the id and role its token carries, and the
\* first event it was sent is 'connected' with its user id.
C27_ConnectedSocketIsRegistered ==
  \A c \in Conns :
    ws[c].st = "connected" =>
      /\ ws[c].userId = ws[c].token.id /\ ws[c].userRole = ws[c].token.role
      /\ ws[c].userId \in DOMAIN connectedUsers
      /\ c \in connectedUsers[ws[c].userId]
      /\ c \in DOMAIN socketUsers
      /\ socketUsers[c] = [userId |-> ws[c].userId, role |-> ws[c].userRole]
      /\ {UserRoom(ws[c].userId), RoleRoom(ws[c].userRole)} \subseteq ws[c].rooms
      /\ Len(ws[c].rx) >= 1
      /\ ws[c].rx[1] = [event |-> "connected", data |-> ws[c].userId]

\* C27 witness: an admin's socket has joined an organization room and left
\* it again, and is still registered and in its two rooms
C27_Witness ==
  \E c \in Conns :
    /\ ws[c].st = "connected" /\ ws[c].userId = "u2"
    /\ ws[c].rooms = {UserRoom("u2"), RoleRoom("admin")}
    /\ Len(ws[c].rx) >= 3
    /\ connectedUsers["u2"] = {c}

----------------------------------------------------------------------------
(* Claims about rate limiting *)

\* the client operations the socket has been answered without an error
Served(s) == Cardinality({i \in 1..Len(s.rx) : s.rx[i].event = "subscribed-device"})

\* C28: within the window that starts at its handshake, a socket is served
\* at most the budget of RateLimit client operations, and stays connected.
C28_OperationsWithinBudget ==
  \A c \in Conns :
    (ws[c].st = "connected" /\ now <= ws[c].rate.resetTime) =>
      Served(ws[c]) <= RateLimit

----------------------------------------------------------------------------
(* Claims about the ids on one stream *)

\* C29: the ids of the frames written to a response, in the order they were
\* written ('connected', replayed events, heartbeats, live events), are
\* strictly increasing.
C29_StreamIdsIncrease ==
  \A c \in Conns :
    \A i, j \in 1..Len(sse[c].written) :
      i < j => sse[c].written[i].id < sse[c].written[j].id

----------------------------------------------------------------------------
(* Claims about fan-out *)

\* C30: a broadcastToUser call for a user who has responses in the map
\* completes (the event is published under the next id) and writes the event
\* to every response of the user that is still writable, whatever the state
\* of the user's other responses; a response that has ended or whose client
\* has left is written nothing.
C30_FanOutIsolated ==
  [][\A u \in Users :
       (BroadcastToUser(u) /\ Has(u)) =>
         /\ Len(published') = Len(published) + 1
         /\ \A c \in Range(connections[u]) :
              sse'[c].written =
                IF sse[c].gone \/ sse[c].ended THEN sse[c].written
                ELSE Append(sse[c].written, Frame(lastEventId', "device-update", u))]_vars

\* C30 witness: a user has two responses in the map, the first one of a
\* client that has left; the second has been written a broadcast event
C30_Witness ==
  \E u \in DOMAIN connections :
    /\ Len(connections[u]) = 2
    /\ sse[connections[u][1]].gone
    /\ ~sse[connections[u][2]].gone /\ ~sse[connections[u][2]].ended
    /\ \E i \in 1..Len(sse[connections[u][2]].written) :
         sse[connections[u][2]].written[i].event = "device-update"

----------------------------------------------------------------------------
(* Claims about a send that fails *)

\* the responses of a user that a send cannot reach at this moment: the
\* response has ended or its client has left
Failing(u) == {c \in Range(ConnsOf(u)) : sse[c].gone \/ sse[c].ended}

\* C31: a broadcastToUser call that meets a response it cannot write to
\* (ended, or its client has left) removes that response from the
\* connections map, and removes no other response.
C31_FailedSendUnregisters ==
  [][\A u \in Users :
       (BroadcastToUser(u) /\ Has(u)) =>
         Tracked(connections') = Tracked(connections) \ Failing(u)]_vars

----------------------------------------------------------------------------
(* Claims about the sweep *)

\* the records of arr that stay when those that expired before second t are
\* removed; a record that expires at t itself is kept only when atExpiry
Unexpired(arr, t, atExpiry) ==
  SelectSeq(arr, LAMBDA r : r.expiresAt > t \/ (atExpiry /\ r.expiresAt = t))

\* a step of cleanExpiredTokens removes from the store exactly what has
\* expired and adds the number of what it removed to its count
SweepStepExact(p, atExpiry) ==
  /\ SweepBlacklist(p) =>
       /\ blacklist' = {e \in blacklist : e.expiresAt >= now}
       /\ pr'[p].count = Cardinality(blacklist \ blacklist')
  /\ (SweepUser(p) /\ pr'[p].res # "VersionError") =>
       LET u == Head(pr[p].sdocs).user
       IN /\ users'[u].refreshTokens = Unexpired(users[u].refreshTokens, now, atExpiry)
          /\ \A x \in Users \ {u} : users'[x] = users[x]
          /\ pr'[p].count =
               pr[p].count + Len(users[u].refreshTokens) - Len(users'[u].refreshTokens)

----------------------------------------------------------------------------
(* Claims about the periodic sweep *)

\* the store holds a blacklist entry or a refresh-token record that has expired
ExpiredHeld ==
  \/ \E e \in blacklist : e.expiresAt < now
  \/ \E u \in Users : \E i \in 1..Len(users[u].refreshTokens) :
       users[u].refreshTokens[i].expiresAt < now

\* C33: the process sweeps on a fixed interval for as long as it runs, so
\* whenever the store holds an expired blacklist entry or an expired
\* refresh-token record, a later moment comes at which it holds none.
C33_ExpiredEventuallyPurged == ExpiredHeld ~> ~ExpiredHeld

----------------------------------------------------------------------------
(* Claims about purged blacklist entries *)

\* C34: a verifyToken call on a token that has been blacklisted does not
\* pass, whether its entry is still in the blacklist or has been purged by
\* cleanExpired or by the TTL index: the jwt check fails for a token whose
\* entry is gone.
C34_BlacklistedNeverPasses ==
  \A p \in Procs :
    (pr[p].op = "verify" /\ pr[p].tok \in LoggedOut) =>
      /\ pr[p].pc \in {"v_bl", "done"}
      /\ pr[p].res # "ok"
      /\ (pr[p].pc = "done" /\ ~pr[p].sawBl) => ~pr[p].sawLive

\* C34 witness: verifyToken has been called on a logged-out token whose entry
\* had been purged, and has failed with 'Token expired'
C34_Witness ==
  \E p \in Procs :
    /\ pr[p].op = "verify" /\ pr[p].pc = "done"
    /\ pr[p].tok \in LoggedOut
    /\ ~pr[p].sawBl
    /\ pr[p].res = "Token expired"

----------------------------------------------------------------------------
(* Claims about the two transports *)

\* the responses of u in the map that can be written to
Writable(u) ==
  {c \in Range(ConnsOf(u)) : sse[c].st = "open" /\ ~sse[c].gone /\ ~sse[c].ended}

\* C35: a device update published by updateDevice reaches the owner's
\* connections of both transports: each writable response of the owner in
\* the SSE map is written a 'device-update' event, and each connected socket
\* of the owner receives one.
C35_PublishReachesBothTransports ==
  [][\A d \in Devices, u \in Users :
       UpdateDevice(d, u) =>
         /\ \A c \in Writable(u) :
              /\ Len(sse'[c].written) = Len(sse[c].written) + 1
              /\ sse'[c].written[Len(sse'[c].written)].event = "device-update"
         /\ \A c \in LiveSockets(ws, u) :
              /\ Len(ws'[c].rx) > Len(ws[c].rx)
              /\ ws'[c].rx[Len(ws'[c].rx)].event = "device-update"]_vars

----------------------------------------------------------------------------
(* Claims about handshakes of locked accounts *)

\* the token names a user whose lock is in force
OfLocked(t) == t.id \in Users /\ Locked(t.id)

\* C36: a handshake on either transport whose token names a user whose
\* lockUntil is in the future is rejected, and enters neither the SSE
\* connections map nor the socket registry.
C36_LockedHandshakeRejected ==
  [][\A c \in Conns :
       /\ (SseVerified(c) /\ OfLocked(sse[c].token)) =>
            /\ sse'[c].st = "rejected"
            /\ c \notin Tracked(connections')
       /\ (WsAuthenticated(c) /\ OfLocked(ws[c].token)) =>
            /\ ws'[c].st = "rejected"
            /\ c \notin Registered(connectedUsers', socketUsers')]_vars

----------------------------------------------------------------------------
(* Claims about whose events a stream carries *)

\* C37: every event written to a response of user U, live or by replay, was
\* published to U or broadcast to all users: a 'device-update' on the stream
\* is one that broadcastToUser was called with for U.
C37_StreamCarriesOwnEvents ==
  \A c \in Conns :
    sse[c].st = "open" =>
      \A i \in 1..Len(sse[c].written) :
        sse[c].written[i].event = "device-update" =>
          sse[c].written[i].data = sse[c].user

----------------------------------------------------------------------------
(* Claims about whose tokens a request can revoke *)

\* C38: logout and revoke blacklist only tokens of the authenticated caller:
\* a token issued to user B that verifyToken rejects as revoked has been
\* blacklisted by a request authenticated as B (the entry's userId, which is
\* req.user.id, is the user the token was issued to).
C38_RevokeOnlyOwnTokens ==
  \A t \in issued :
    isBlacklisted(blacklist, t) =>
      \A e \in blacklist : e.token = t => e.userId = t.id

----------------------------------------------------------------------------
(* Claims about clients that close the stream *)

\* C39: a response whose client has closed the transport, be it during the
\* handshake's await or after it, is eventually absent from the connections
\* map.
C39_ClosedEventuallyUnregistered ==
  \A c \in Conns : (sse[c].gone /\ sse[c].st # "verifying") ~> (c \notin Tracked(connections))

====
